---- MODULE Spec2Model ----
(***************************************************************************)
(* Enrichment & analytics core of the 13F holdings application.            *)
(*                                                                         *)
(* Numbers.  pct_of_portfolio is produced by holdings._build_rows as       *)
(* round(x, 2); it is held here as an integer number of hundredths of a    *)
(* percent (1000 = 10.00 %).  combined_weight is round(x, 4); it is held   *)
(* as an integer number of 1e-4 percent (50000 = 5.0000 %).  Manager       *)
(* weights are rationals [num, den] (100/3 = [num |-> 100, den |-> 3]).    *)
(* round() is Python's round-half-even, applied to the exact quotient.     *)
(***************************************************************************)
EXTENDS Integers, Sequences, FiniteSets, TLC

VARIABLES
    \* ---- analytics (analysis.py): inputs, the function applied, outputs
    all_rows,          \* records of the current snapshot
    previous_rows,     \* records of the previous snapshot (compute_qoq_diff)
    manager_weights,   \* [none |-> BOOLEAN, map |-> manager -> weight]
    called,            \* name of the analytics function that has run
    mgr_wt,            \* _apply_manager_weights: local mgr_wt
    total_wt,          \* _apply_manager_weights: returned total_wt
    weighted,          \* _apply_manager_weights: returned weighted rows
    by_ticker,         \* the de-duplicated positions built by the function called
    manager_tables,    \* _build_table on each manager's rows: all_stocks
    overlap,           \* compute_overlap: returned list
    diff,              \* compute_qoq_diff: returned dict
    \* ---- enrichment (financial_data.py)
    cache,             \* _cache: key -> record
    cache_lock,        \* _cache_lock: the thread holding it, Free when none
    thr,               \* per thread: position in fetch_ticker_data and locals
    reset_pc,          \* position of the /api/reset handler in clear_cache
    envs,              \* what the market-data provider may answer
    ops_left,          \* direct fetch_ticker_data and clear_cache calls still to be made
    returned_keys,     \* keys of the fetches returned since the last clear_cache
    after_clear,       \* clear_cache has returned and no fetch has started since
    writers,           \* key -> threads that stored it since the last clear_cache
    late_keys,         \* keys stored since the last clear_cache by fetches begun before it returned
    \* ---- batch_fetch_financial_data
    tickers, quarter_end, max_workers, progress_callback,   \* arguments
    main_pc,           \* position of the caller in batch_fetch_financial_data
    futures,           \* future_to_ticker: per submitted ticker, its future
    work_queue,        \* the executor's queue of futures not yet started
    results,           \* results: ticker -> record
    done,              \* done
    progress,          \* the progress_callback invocations, in order
    \* ---- normalize_sector_name / normalize_country_name
    norm_input,        \* [fn, name]: the function called and its argument
    norm_out,          \* the values returned by the successive applications
    \* ---- compute_summary_stats / compute_top_stocks_valuation
    top_n,             \* argument top_n of the call made
    summary_stats,     \* compute_summary_stats: returned dict
    valuation,         \* compute_top_stocks_valuation: returned dict
    table_data,        \* compute_portfolio_table_data: returned dict, "weighted"
    breakdown,         \* returned dict of the breakdown or treemap function called
    error,             \* the call ended in a ZeroDivisionError
    \* ---- run handlers (13F_stocks_app.py, bentley_app.py)
    app,               \* the application serving: "13F" or "bentley"
    run_lock,          \* run_lock is held
    abort_flag,        \* abort_flag is set
    progress_queues,   \* per accepted run, the events put on its queue
    worker,            \* per accepted run, its worker thread
    handler,           \* the run handler between its acquire and its return
    response,          \* the last answer to a run request
    last_results,      \* the run whose results last_results holds, 0 when none
    diff_results       \* the run whose diff diff_results holds, 0 when none

analysisVars == <<all_rows, previous_rows, manager_weights, called, mgr_wt,
                  total_wt, weighted, by_ticker, manager_tables, overlap, diff>>

cacheVars == <<cache, cache_lock, thr, reset_pc, envs, ops_left,
               returned_keys, after_clear, writers, late_keys>>

batchVars == <<tickers, quarter_end, max_workers, progress_callback, main_pc,
               futures, work_queue, results, done, progress>>

statsVars == <<top_n, summary_stats, valuation, table_data, breakdown, error>>

appVars == <<app, run_lock, abort_flag, progress_queues, worker, handler,
             response, last_results, diff_results>>

pureVars == <<norm_input, norm_out, statsVars, appVars>>

vars == <<analysisVars, cacheVars, batchVars, pureVars>>

\* ------------------------------------------------------------------------
\* Bounds and input universes
\* ------------------------------------------------------------------------
MaxRows == 3
MaxDiffRows == 2
NThreads == 2
MaxOps == 3
MaxTickers == 2
MaxStatRows == 2

NA == "N/A"

Managers == <<"A", "B", "C">>

\* (ticker, name) pairs of the instruments a manager may hold
TickCorp == [ticker |-> "TICK", name |-> "Tick Corp"]
OtherInc == [ticker |-> "OTH", name |-> "Other Inc"]
AlphaFund == [ticker |-> NA, name |-> "Alpha Fund"]
BetaFund == [ticker |-> NA, name |-> "Beta Fund"]
Instruments == {TickCorp, AlphaFund}

\* pct_of_portfolio values, in hundredths of a percent
Pcts == {1000, 2000, 4000, 10000}

\* None
NULL == "None"

\* A holding record as built by holdings._build_rows; the enrichment columns
\* read by the functions modelled here are sector and industry.
Row(m, ins, v, p, sec) ==
    [manager |-> m, ticker |-> ins.ticker, name |-> ins.name,
     value_usd |-> v, pct_of_portfolio |-> p, rank |-> 1,
     sector |-> sec, industry |-> NULL]

\* Python's order on the strings that are sorted (code point order)
StrOrder == <<"N/A", "OTH", "TICK">>
StrRank(x) == CHOOSE i \in DOMAIN StrOrder : StrOrder[i] = x

\* The no-argument default of manager_weights, the empty map, and explicit maps
NoMap == [m \in {} |-> 0]
WeightChoices ==
    {[none |-> TRUE, map |-> NoMap],
     [none |-> FALSE, map |-> NoMap],
     [none |-> FALSE, map |-> [m \in {"A", "B"} |-> IF m = "A" THEN 70 ELSE 30]],
     [none |-> FALSE, map |-> [m \in {"B"} |-> 30]],
     [none |-> FALSE, map |-> [m \in {"A", "B"} |-> IF m = "A" THEN 0 ELSE -10]],
     [none |-> FALSE, map |-> [m \in {"A", "B"} |-> IF m = "A" THEN 50 ELSE -50]]}

\* ------------------------------------------------------------------------
\* Arithmetic helpers
\* ------------------------------------------------------------------------
Abs(x) == IF x < 0 THEN -x ELSE x

\* Python round(): nearest integer of a/b, a tie going to the even neighbour
RoundDiv(a, b) ==
    LET n == IF b < 0 THEN -a ELSE a
        d == Abs(b)
        q == n \div d
        r == n - q * d
    IN  IF 2 * r < d THEN q
        ELSE IF 2 * r > d THEN q + 1
        ELSE IF q % 2 = 0 THEN q ELSE q + 1

RECURSIVE SumSeq(_)
SumSeq(s) == IF s = <<>> THEN 0 ELSE Head(s) + SumSeq(Tail(s))

RECURSIVE SumOver(_, _)
\* sum of f[x] over the finite set S
SumOver(f, S) ==
    IF S = {} THEN 0
    ELSE LET x == CHOOSE y \in S : TRUE IN f[x] + SumOver(f, S \ {x})

Range(s) == {s[i] : i \in DOMAIN s}

RECURSIVE ProdOver(_, _)
\* product of f[x] over the finite set S
ProdOver(f, S) ==
    IF S = {} THEN 1
    ELSE LET x == CHOOSE y \in S : TRUE IN f[x] * ProdOver(f, S \ {x})

RECURSIVE Gcd(_, _)
Gcd(a, b) == IF b = 0 THEN Abs(a) ELSE Gcd(b, a % Abs(b))

RECURSIVE GcdOver(_, _)
\* greatest common divisor of f[x] over the finite set S, 1 when all are 0
GcdOver(f, S) ==
    IF S = {} THEN 0
    ELSE LET x == CHOOSE y \in S : TRUE
             g == Gcd(f[x], GcdOver(f, S \ {x}))
         IN  g

\* the weights w over S divided by their common divisor: a quotient of two
\* sums weighted by w is the same with the reduced weights
Reduced(w, S) ==
    LET g == GcdOver(w, S) IN [x \in S |-> IF g = 0 THEN 0 ELSE w[x] \div g]

Min(a, b) == IF a < b THEN a ELSE b
Max(a, b) == IF a > b THEN a ELSE b

\* A number that may be None: <<>> is None, <<v>> is the number v
NoNum == <<>>
Some(v) == <<v>>

\* r.get(f): None when the record has no such key
Get(r, f) == IF f \in DOMAIN r THEN r[f] ELSE NULL
GetNum(r, f) == IF f \in DOMAIN r THEN r[f] ELSE NoNum

\* truth value of a string or None
Truthy(v) == v # NULL /\ v # ""

\* `if d[f] is None and r.get(f) is not None: d[f] = r[f]`
FirstNum(old, v) == IF old = NoNum /\ v # NoNum THEN v ELSE old

\* `if d[f] is None and r.get(f): d[f] = r[f]`
FirstTruthy(old, v) == IF old = NULL /\ Truthy(v) THEN v ELSE old

\* ------------------------------------------------------------------------
\* analysis._apply_manager_weights
\* ------------------------------------------------------------------------
ManagersOf(rows) == {rows[i].manager : i \in DOMAIN rows}

\* variant: the test written `v >= 0`
UseGivenWeightsNonNegative(mw) ==
    /\ ~mw.none
    /\ DOMAIN mw.map # {}
    /\ \E m \in DOMAIN mw.map : mw.map[m] >= 0

\* `manager_weights and any(v > 0 for v in manager_weights.values())`
UseGivenWeights(mw) ==
    /\ ~mw.none
    /\ DOMAIN mw.map # {}
    /\ \E m \in DOMAIN mw.map : mw.map[m] > 0

\* mgr_wt: given weight (0 when missing) or the equal share 100 / N
MgrWt(rows, mw) ==
    LET managers == ManagersOf(rows) IN
    IF UseGivenWeights(mw)
    THEN [m \in managers |->
            [num |-> IF m \in DOMAIN mw.map THEN mw.map[m] ELSE 0, den |-> 1]]
    ELSE [m \in managers |-> [num |-> 100, den |-> Cardinality(managers)]]

\* variant: the weights are taken to sum to 100
TotalWtHundred(mgrwt) == [num |-> 100, den |-> 1]

\* total_wt = sum(mgr_wt.values()) or 1
TotalWt(mgrwt) ==
    LET nums == [m \in DOMAIN mgrwt |-> mgrwt[m].num]
        s == SumOver(nums, DOMAIN mgrwt)
        d == IF DOMAIN mgrwt = {} THEN 1
             ELSE mgrwt[CHOOSE m \in DOMAIN mgrwt : TRUE].den
    IN  IF s = 0 THEN [num |-> 1, den |-> 1] ELSE [num |-> s, den |-> d]

\* round((pct / 100.0) * (mw / total_wt) * 100.0, 4), in units of 1e-4 percent
CombinedWeight(r, mgrwt, tot) ==
    LET mw == IF r.manager \in DOMAIN mgrwt THEN mgrwt[r.manager]
              ELSE [num |-> 0, den |-> 1]
    IN  RoundDiv(r.pct_of_portfolio * 100 * mw.num * tot.den, mw.den * tot.num)

\* the returned rows: a copy of each input row plus combined_weight
WeightedRows(rows, mgrwt, tot) ==
    [i \in DOMAIN rows |->
        [combined_weight |-> CombinedWeight(rows[i], mgrwt, tot)] @@ rows[i]]

\* variant: `row_copy = r`, the input record itself
SameDict(r) == [is_input |-> TRUE, items |-> r]

\* row_copy = dict(r): a new dict holding r's items
NewDict(r) == [is_input |-> FALSE, items |-> r]

\* the caller's records once the loop has written combined_weight into each
\* row_copy: a record changes only if row_copy is that record
InputAfterLoop(rows, mgrwt, tot) ==
    [i \in DOMAIN rows |->
        IF NewDict(rows[i]).is_input
        THEN WeightedRows(rows, mgrwt, tot)[i]
        ELSE rows[i]]

\* input: the caller's all_rows after the call
apply_manager_weights(rows, mw) ==
    LET mgrwt == MgrWt(rows, mw)
        tot == TotalWt(mgrwt)
    IN  [mgr_wt |-> mgrwt, total_wt |-> tot,
         weighted |-> WeightedRows(rows, mgrwt, tot),
         input |-> InputAfterLoop(rows, mgrwt, tot)]

\* ------------------------------------------------------------------------
\* Sorting: Python's sort is stable; keys are tuples of integers
\* ------------------------------------------------------------------------
RECURSIVE LexLess(_, _)
LexLess(a, b) ==
    IF a = <<>> THEN FALSE
    ELSE IF Head(a) # Head(b) THEN Head(a) < Head(b)
    ELSE LexLess(Tail(a), Tail(b))

\* s, a sorted sequence of indices, with index i put after every index whose
\* key is not greater than key[i]
InsertIdx(s, i, key) ==
    LET p == Cardinality({x \in DOMAIN s : ~LexLess(key[i], key[s[x]])})
    IN  SubSeq(s, 1, p) \o <<i>> \o SubSeq(s, p + 1, Len(s))

RECURSIVE SortedIdx(_, _)
SortedIdx(n, key) ==
    IF n = 0 THEN <<>> ELSE InsertIdx(SortedIdx(n - 1, key), n, key)

\* sorted(s, key = ...) where key[i] is the key of s[i]
SortBy(s, key) ==
    LET idx == SortedIdx(Len(s), key) IN [i \in DOMAIN s |-> s[idx[i]]]

\* ------------------------------------------------------------------------
\* analysis.compute_portfolio_table_data._build_table: aggregation by ticker
\* ------------------------------------------------------------------------
\* key = tk if tk != "N/A" else r.get("name", "Unknown")
TickerKey(r) == IF r.ticker # NA THEN r.ticker ELSE r.name

\* the entry created for a key not yet in by_ticker; monthly_returns is a
\* list, None and the empty list both being <<>>
NewStock(k, r) ==
    [key |-> k, ticker |-> r.ticker, name |-> r.name, sector |-> NULL,
     industry |-> NULL, pct |-> 0, qtd_return |-> NoNum, forward_pe |-> NoNum,
     forward_eps_growth |-> NoNum, monthly_returns |-> <<>>]

GetList(r, f) == IF f \in DOMAIN r THEN r[f] ELSE <<>>

\* "Take first non-None for each field"
StockFields(d, r) ==
    [d EXCEPT
        !.sector = FirstTruthy(@, Get(r, "sector")),
        !.industry = FirstTruthy(@, Get(r, "industry")),
        !.monthly_returns = IF @ = <<>> THEN GetList(r, "monthly_returns") ELSE @,
        !.qtd_return = FirstNum(@, GetNum(r, "qtd_return_pct")),
        !.forward_pe = FirstNum(@, GetNum(r, "forward_pe")),
        !.forward_eps_growth = FirstNum(@, GetNum(r, "forward_eps_growth"))]

KeyIndex(acc, k) ==
    IF \E i \in DOMAIN acc : acc[i].key = k
    THEN CHOOSE i \in DOMAIN acc : acc[i].key = k
    ELSE 0

\* variant: `d["pct"] = ...` in place of `d["pct"] += ...`
RECURSIVE AggregateByTickerOverwrite(_, _, _)
AggregateByTickerOverwrite(rows, use_combined_weight, acc) ==
    IF rows = <<>> THEN acc
    ELSE
      LET r == Head(rows)
          k == TickerKey(r)
          w == IF use_combined_weight THEN r.combined_weight
               ELSE r.pct_of_portfolio * 100
          i == KeyIndex(acc, k)
          d == IF i = 0 THEN NewStock(k, r) ELSE acc[i]
          d2 == StockFields([d EXCEPT !.pct = w], r)
          acc2 == IF i = 0 THEN Append(acc, d2) ELSE [acc EXCEPT ![i] = d2]
      IN  AggregateByTickerOverwrite(Tail(rows), use_combined_weight, acc2)

\* by_ticker after the loop over rows; a dict keeps insertion order
RECURSIVE AggregateByTicker(_, _, _)
AggregateByTicker(rows, use_combined_weight, acc) ==
    IF rows = <<>> THEN acc
    ELSE
      LET r == Head(rows)
          k == TickerKey(r)
          w == IF use_combined_weight THEN r.combined_weight
               ELSE r.pct_of_portfolio * 100
          i == KeyIndex(acc, k)
          d == IF i = 0 THEN NewStock(k, r) ELSE acc[i]
          d2 == StockFields([d EXCEPT !.pct = @ + w], r)
          acc2 == IF i = 0 THEN Append(acc, d2) ELSE [acc EXCEPT ![i] = d2]
      IN  AggregateByTicker(Tail(rows), use_combined_weight, acc2)

\* all_stocks = sorted(by_ticker.values(), key=lambda x: -x["pct"])
AllStocks(rows, use_combined_weight) ==
    LET agg == AggregateByTicker(rows, use_combined_weight, <<>>)
    IN  SortBy(agg, [i \in DOMAIN agg |-> <<-agg[i].pct>>])

\* ------------------------------------------------------------------------
\* analysis.compute_overlap
\* ------------------------------------------------------------------------
TickerIndex(acc, tk) ==
    IF \E i \in DOMAIN acc : acc[i].ticker = tk
    THEN CHOOSE i \in DOMAIN acc : acc[i].ticker = tk
    ELSE 0

\* ticker_data after the loop over all_rows ("N/A" rows are skipped)
RECURSIVE OverlapTickerData(_, _)
OverlapTickerData(rows, acc) ==
    IF rows = <<>> THEN acc
    ELSE
      LET r == Head(rows)
          i == TickerIndex(acc, r.ticker)
          old == IF i = 0
                 THEN [ticker |-> r.ticker, name |-> "", managers |-> <<>>,
                       total_value |-> 0, pcts |-> <<>>,
                       sector |-> NULL, industry |-> NULL]
                 ELSE acc[i]
          new == [ticker |-> r.ticker,
                  name |-> r.name,
                  managers |-> Append(old.managers, r.manager),
                  total_value |-> old.total_value + r.value_usd,
                  pcts |-> Append(old.pcts, r.pct_of_portfolio),
                  sector |-> IF r.sector # NULL THEN r.sector ELSE old.sector,
                  industry |-> IF r.industry # NULL THEN r.industry
                               ELSE old.industry]
      IN  IF r.ticker = NA THEN OverlapTickerData(Tail(rows), acc)
          ELSE IF i = 0 THEN OverlapTickerData(Tail(rows), Append(acc, new))
          ELSE OverlapTickerData(Tail(rows), [acc EXCEPT ![i] = new])

\* `if len(d["managers"]) >= 2`
OverlapEmits(d) == Len(d.managers) >= 2

OverlapEntry(d) ==
    [ticker |-> d.ticker, name |-> d.name,
     managers |-> Range(d.managers),
     manager_count |-> Cardinality(Range(d.managers)),
     total_value |-> d.total_value,
     avg_pct |-> RoundDiv(SumSeq(d.pcts), Len(d.pcts)),
     sector |-> d.sector, industry |-> d.industry]

compute_overlap(rows) ==
    LET td == OverlapTickerData(rows, <<>>)
        emitted == SelectSeq(td, OverlapEmits)
        entries == [i \in DOMAIN emitted |-> OverlapEntry(emitted[i])]
    IN  SortBy(entries, [i \in DOMAIN entries |->
                   <<-entries[i].manager_count, -entries[i].total_value>>])

\* ------------------------------------------------------------------------
\* analysis.compute_qoq_diff
\* ------------------------------------------------------------------------
\* r.get("ticker", r["name"]): every record carries a "ticker" key (the
\* sentinel "N/A" when unresolved), so the default is never taken
DiffKey(r) == r.ticker

\* variant: one index shared by all managers (`result[key] = r`)
IndexByTickerOnly(rows) ==
    [m \in ManagersOf(rows) |->
        LET keys == {DiffKey(rows[i]) : i \in DOMAIN rows}
        IN  [k \in keys |->
                LET at == {i \in DOMAIN rows : DiffKey(rows[i]) = k}
                IN  rows[CHOOSE i \in at : \A j \in at : j <= i]]]

\* result[r["manager"]][key] = r, a later row replacing an earlier one
IndexByManagerTicker(rows) ==
    [m \in ManagersOf(rows) |->
        LET mine == {i \in DOMAIN rows : rows[i].manager = m}
            keys == {DiffKey(rows[i]) : i \in mine}
        IN  [k \in keys |->
                LET at == {i \in mine : DiffKey(rows[i]) = k}
                IN  rows[CHOOSE i \in at : \A j \in at : j <= i]]]

HoldingsOf(idx, mgr) == IF mgr \in DOMAIN idx THEN idx[mgr] ELSE NoMap

\* sorted(S) for a set of strings
RECURSIVE SortedStrings(_)
SortedStrings(S) ==
    IF S = {} THEN <<>>
    ELSE LET x == CHOOSE y \in S : \A z \in S : StrRank(y) <= StrRank(z)
         IN  <<x>> \o SortedStrings(S \ {x})

PositionEntry(r) ==
    [name |-> r.name, ticker |-> r.ticker,
     value |-> r.value_usd, pct |-> r.pct_of_portfolio]

\* change = round(curr_pct - prev_pct, 2), in hundredths of a percent
ChangePct(cr, pr) == cr.pct_of_portfolio - pr.pct_of_portfolio

\* variant: the threshold excluded (`abs(change) > 0.5`)
IsChangedAbove(cr, pr) == Abs(ChangePct(cr, pr)) > 50

\* `if abs(change) >= 0.5`
IsChanged(cr, pr) == Abs(ChangePct(cr, pr)) >= 50

ChangedEntry(cr, pr) ==
    [name |-> cr.name, ticker |-> cr.ticker,
     prev_pct |-> pr.pct_of_portfolio, curr_pct |-> cr.pct_of_portfolio,
     change_pct |-> ChangePct(cr, pr),
     prev_value |-> pr.value_usd, curr_value |-> cr.value_usd,
     prev_rank |-> pr.rank, curr_rank |-> cr.rank]

ManagerDiff(curr_holdings, prev_holdings) ==
    LET curr_tickers == DOMAIN curr_holdings
        prev_tickers == DOMAIN prev_holdings
        new_tickers == SortedStrings(curr_tickers \ prev_tickers)
        exited_tickers == SortedStrings(prev_tickers \ curr_tickers)
        common_tickers == SortedStrings(curr_tickers \cap prev_tickers)
        moved == SelectSeq(common_tickers,
                     LAMBDA tk : IsChanged(curr_holdings[tk], prev_holdings[tk]))
        changed == [i \in DOMAIN moved |->
                       ChangedEntry(curr_holdings[moved[i]], prev_holdings[moved[i]])]
    IN  [new_positions |->
            [i \in DOMAIN new_tickers |-> PositionEntry(curr_holdings[new_tickers[i]])],
         exited_positions |->
            [i \in DOMAIN exited_tickers |-> PositionEntry(prev_holdings[exited_tickers[i]])],
         changed_positions |->
            SortBy(changed, [i \in DOMAIN changed |-> <<-Abs(changed[i].change_pct)>>]),
         unchanged_count |-> Len(common_tickers) - Len(moved)]

compute_qoq_diff(current, previous) ==
    LET curr_idx == IndexByManagerTicker(current)
        prev_idx == IndexByManagerTicker(previous)
    IN  [mgr \in DOMAIN curr_idx \cup DOMAIN prev_idx |->
            ManagerDiff(HoldingsOf(curr_idx, mgr), HoldingsOf(prev_idx, mgr))]

\* ------------------------------------------------------------------------
\* financial_data.fetch_ticker_data: the record built on a cache miss
\* ------------------------------------------------------------------------
\* Every field holds None or the name of the provider call (or "static", the
\* _SECTOR_FALLBACK table) its value was derived from.
PriceFields == {"prior_price_qtr_end", "prior_quarter_return_pct",
                "filing_price_qtr_end", "filing_quarter_return_pct"}
EpsFields == {"prior_reported_eps", "prior_consensus_eps",
              "prior_eps_beat_dollars", "prior_eps_beat_pct",
              "filing_reported_eps", "filing_consensus_eps",
              "filing_eps_beat_dollars", "filing_eps_beat_pct"}
InfoFields == {"forward_pe", "dividend_yield", "trailing_eps", "forward_eps",
               "forward_ps"}
QtdFields == {"qtd_return_pct", "qtd_price_start", "monthly_returns",
              "current_price"}
ResultFields == PriceFields \cup EpsFields \cup InfoFields \cup QtdFields \cup
                {"forward_eps_growth", "forward_revenue_growth",
                 "sector", "industry", "country"}

\* _empty_result()
EmptyResult == [f \in ResultFields |-> NULL]

\* the statements of the body that can raise, in program order: the
\* yf.Ticker / quarter-boundary prologue and the six provider calls
CallOrder == <<"prologue", "history", "info", "growth_estimates",
               "revenue_estimate", "earnings_dates", "qtd_history">>
ProviderCalls == {CallOrder[i] : i \in 2..7}
Pos(c) == CHOOSE i \in DOMAIN CallOrder : CallOrder[i] = c

\* what the provider may do on one fetch: answer with data, answer with
\* nothing (an empty frame, an empty or partial info bundle), or raise
CallOutcomes == {"ok", "raise"}
InfoOutcomes == {"ok", "no_sector", "no_industry", "no_country", "empty", "raise"}
Environments ==
    [prologue : {"ok", "raise"}, history : {"ok", "empty", "raise"},
     info : InfoOutcomes,
     growth_estimates : CallOutcomes, revenue_estimate : CallOutcomes,
     earnings_dates : CallOutcomes, qtd_history : CallOutcomes,
     today_after : BOOLEAN]

AllOk == [prologue |-> "ok", history |-> "ok", info |-> "ok",
          growth_estimates |-> "ok", revenue_estimate |-> "ok",
          earnings_dates |-> "ok", qtd_history |-> "ok", today_after |-> TRUE]
AllRaise == [prologue |-> "ok", history |-> "raise", info |-> "raise",
             growth_estimates |-> "raise", revenue_estimate |-> "raise",
             earnings_dates |-> "raise", qtd_history |-> "raise",
             today_after |-> TRUE]

\* tickers with an entry in _SECTOR_FALLBACK (after alias resolution)
StaticTickers == {"AAA"}

\* `if today > qtr_end_dt:` guards the QTD price fetch
Attempted(out, c) == c = "qtd_history" => out.today_after

\* variant: t.info read without its own try/except
IsolatedExceptInfo(c) == c \in ProviderCalls \ {"info"}

\* the calls wrapped in their own `try: ... except Exception: pass`
Isolated(c) == c \in ProviderCalls

\* position of the first statement whose exception leaves the body for the
\* outer handler, 8 when there is none
AbortPoint(out) ==
    LET bad == {i \in DOMAIN CallOrder :
                  /\ out[CallOrder[i]] = "raise"
                  /\ Attempted(out, CallOrder[i])
                  /\ ~Isolated(CallOrder[i])}
    IN  IF bad = {} THEN 8 ELSE CHOOSE i \in bad : \A j \in bad : i <= j

\* the statements that follow call c were executed
Done(out, c) == Pos(c) < AbortPoint(out)

\* call c was made and returned data
Data(out, c) == Done(out, c) /\ Attempted(out, c) /\ out[c] = "ok"

InfoHas(out) ==
    Done(out, "info") /\ out.info \in {"ok", "no_sector", "no_industry", "no_country"}

\* lookup_sector_fallback(ticker) found an entry
FallbackUsed(ticker, out) ==
    /\ Done(out, "info")
    /\ ~(InfoHas(out) /\ out.info # "no_sector")
    /\ ticker \in StaticTickers

FieldValue(ticker, out, f) ==
    IF f \in PriceFields THEN
        (IF Data(out, "history") THEN "history" ELSE NULL)
    ELSE IF f \in {"forward_pe", "dividend_yield", "trailing_eps", "forward_eps"} THEN
        (IF InfoHas(out) THEN "info" ELSE NULL)
    ELSE IF f = "sector" THEN
        (IF InfoHas(out) /\ out.info # "no_sector" THEN "info"
         ELSE IF FallbackUsed(ticker, out) THEN "static" ELSE NULL)
    ELSE IF f = "industry" THEN
        (IF InfoHas(out) /\ out.info # "no_industry" THEN "info"
         ELSE IF FallbackUsed(ticker, out) THEN "static" ELSE NULL)
    ELSE IF f = "country" THEN
        (IF InfoHas(out) /\ out.info # "no_country" THEN "info"
         ELSE IF FallbackUsed(ticker, out) THEN "static" ELSE NULL)
    ELSE IF f = "forward_eps_growth" THEN
        (IF Data(out, "growth_estimates") THEN "growth_estimates"
         ELSE IF Done(out, "growth_estimates") /\ InfoHas(out) THEN "info"
         ELSE NULL)
    ELSE IF f = "forward_revenue_growth" THEN
        (IF Data(out, "revenue_estimate") THEN "revenue_estimate"
         ELSE IF Done(out, "revenue_estimate") /\ InfoHas(out) THEN "info"
         ELSE NULL)
    ELSE IF f = "forward_ps" THEN
        (IF Done(out, "revenue_estimate") /\ InfoHas(out) THEN "info" ELSE NULL)
    ELSE IF f \in EpsFields THEN
        (IF Data(out, "earnings_dates") THEN "earnings_dates" ELSE NULL)
    ELSE
        (IF Data(out, "qtd_history") THEN "qtd_history" ELSE NULL)

\* `result` when the body is left, normally or through the outer handler
FetchRecord(ticker, out) == [f \in ResultFields |-> FieldValue(ticker, out, f)]

\* the outer `try: ... except Exception: pass` encloses the whole body
OuterTryCatches == TRUE

\* an exception leaves fetch_ticker_data
Escapes(out) == AbortPoint(out) < 8 /\ ~OuterTryCatches

\* _cache_key: f"{ticker}|{quarter_end}", one string per (ticker, quarter)
\* pair since no ticker or date contains "|"
CacheKey(ticker, quarter) == <<ticker, quarter>>

\* ------------------------------------------------------------------------
\* financial_data: the cache, fetch_ticker_data step by step, clear_cache
\* ------------------------------------------------------------------------
Threads == 1..NThreads
Free == 0
Resetter == NThreads + 1

CallTickers == {"AAA", "BBB"}
Quarters == {"2025-06-30", "2025-09-30"}
\* the (ticker, quarter_end) pairs fetched
CallArgs == {<<"AAA", "2025-06-30">>, <<"AAA", "2025-09-30">>, <<"BBB", "2025-09-30">>}

IdleThread ==
    [pc |-> "idle", ticker |-> "AAA", quarter |-> "2025-09-30",
     result |-> EmptyResult, env |-> AllOk, job |-> 0, made_calls |-> FALSE,
     raised |-> FALSE, expect_hit |-> FALSE, first_after_clear |-> FALSE,
     pre_clear |-> FALSE, degraded |-> FALSE, owed |-> {}]

KeyOf(t) == CacheKey(thr[t].ticker, thr[t].quarter)

NoFuture == [state |-> "new", exc |-> FALSE, value |-> EmptyResult,
             yielded |-> FALSE]

\* state of the enrichment side before anything is called
EnrichmentIdle ==
    /\ cache = NoMap
    /\ cache_lock = Free
    /\ thr = [t \in Threads |-> IdleThread]
    /\ reset_pc = "idle"
    /\ returned_keys = {}
    /\ after_clear = FALSE
    /\ writers = [k \in CallTickers \X Quarters |-> {}]
    /\ late_keys = {}
    /\ futures = <<>>
    /\ work_queue = <<>>
    /\ results = NoMap
    /\ done = 0
    /\ progress = <<>>

NoBatch ==
    /\ tickers = <<>>
    /\ quarter_end = "2025-09-30"
    /\ max_workers = NThreads
    /\ progress_callback = FALSE
    /\ main_pc = "none"

NoEnrichment ==
    /\ EnrichmentIdle
    /\ NoBatch
    /\ envs = {}
    /\ ops_left = 0

\* every provider call of the fetch failed: it raised, came back empty or
\* was not reached
AllFailed(out) == \A c \in ProviderCalls : ~Data(out, c)

\* the records that fetches of (tk, q) whose calls all failed have returned,
\* clear_cache not having been called since
Owed(tk, q) ==
    IF reset_pc # "idle" THEN {}
    ELSE {thr[u].result :
            u \in {v \in Threads : /\ thr[v].degraded /\ thr[v].pc = "done"
                                  /\ thr[v].ticker = tk /\ thr[v].quarter = q}}

\* entry of fetch_ticker_data(ticker, quarter_end) in thread t; job is the
\* index of the future the call runs for, 0 for a direct call
StartFetch(t, tk, q, j) ==
    /\ thr' = [thr EXCEPT ![t] =
                 [pc |-> "lock_check", ticker |-> tk, quarter |-> q,
                  result |-> EmptyResult, env |-> AllOk, job |-> j,
                  made_calls |-> FALSE, raised |-> FALSE,
                  expect_hit |-> CacheKey(tk, q) \in returned_keys,
                  first_after_clear |-> after_clear, pre_clear |-> FALSE,
                  degraded |-> FALSE, owed |-> Owed(tk, q)]]
    /\ after_clear' = FALSE

Call(t) ==
    /\ thr[t].pc \in {"idle", "done"}
    /\ ops_left > 0
    /\ ops_left' = ops_left - 1
    /\ \A u \in Threads : u < t => thr[u].pc # "idle"
    /\ \E a \in CallArgs : StartFetch(t, a[1], a[2], 0)
    /\ UNCHANGED <<cache, cache_lock, reset_pc, envs, returned_keys, writers, late_keys>>
    /\ UNCHANGED <<analysisVars, batchVars, pureVars>>

\* `with _cache_lock:` (line 963)
AcquireForCheck(t) ==
    /\ thr[t].pc = "lock_check"
    /\ cache_lock = Free
    /\ cache_lock' = t
    /\ thr' = [thr EXCEPT ![t].pc = "check"]
    /\ UNCHANGED <<cache, reset_pc, envs, ops_left, returned_keys, after_clear,
                   writers, late_keys>>
    /\ UNCHANGED <<analysisVars, batchVars, pureVars>>

\* a future is set: its result, or the exception its call raised
Finish(fs, j, exc, value) ==
    IF j = 0 THEN fs
    ELSE [fs EXCEPT ![j] = [state |-> "finished", exc |-> exc,
                            value |-> value, yielded |-> FALSE]]

\* thread t after its call ended: a direct caller keeps what it got (r), a
\* pool worker is free again and its locals are gone
Ended(t, r) == IF thr[t].job = 0 THEN r ELSE IdleThread

\* the call of thread t returns rec: its key counts as returned unless a
\* clear_cache call is under way
Returned(t, rec) ==
    /\ returned_keys' = IF reset_pc = "idle"
                         THEN returned_keys \cup {KeyOf(t)}
                         ELSE returned_keys
    /\ futures' = Finish(futures, thr[t].job, FALSE, rec)

\* `if key in _cache: return _cache[key]`; leaving the block releases the lock
Check(t) ==
    /\ thr[t].pc = "check"
    /\ cache_lock = t
    /\ cache_lock' = Free
    /\ IF KeyOf(t) \in DOMAIN cache
       THEN /\ thr' = [thr EXCEPT ![t] = Ended(t, [@ EXCEPT !.pc = "done",
                                               !.result = cache[KeyOf(t)]])]
            /\ Returned(t, cache[KeyOf(t)])
       ELSE /\ thr' = [thr EXCEPT ![t].pc = "compute"]
            /\ UNCHANGED <<returned_keys, futures>>
    /\ UNCHANGED <<cache, reset_pc, envs, ops_left, after_clear, writers, late_keys>>
    /\ UNCHANGED <<analysisVars, pureVars, tickers, quarter_end, max_workers,
                   progress_callback, main_pc, work_queue, results, done, progress>>

\* lines 967-1173: the provider calls and the record built from them
Compute(t) ==
    /\ thr[t].pc = "compute"
    /\ \E out \in envs :
          IF Escapes(out)
          THEN /\ thr' = [thr EXCEPT ![t] = Ended(t, [@ EXCEPT !.pc = "done",
                                  !.env = out, !.made_calls = TRUE,
                                  !.raised = TRUE])]
               /\ futures' = Finish(futures, thr[t].job, TRUE, EmptyResult)
          ELSE /\ thr' = [thr EXCEPT ![t].pc = "lock_store", ![t].env = out,
                                     ![t].made_calls = TRUE,
                                     ![t].result = FetchRecord(thr[t].ticker, out)]
               /\ UNCHANGED futures
    /\ UNCHANGED <<cache, cache_lock, reset_pc, envs, ops_left, returned_keys,
                   after_clear, writers, late_keys>>
    /\ UNCHANGED <<analysisVars, pureVars, tickers, quarter_end, max_workers,
                   progress_callback, main_pc, work_queue, results, done, progress>>

\* `with _cache_lock:` (line 1175)
AcquireForStore(t) ==
    /\ thr[t].pc = "lock_store"
    /\ cache_lock = Free
    /\ cache_lock' = t
    /\ thr' = [thr EXCEPT ![t].pc = "store"]
    /\ UNCHANGED <<cache, reset_pc, envs, ops_left, returned_keys, after_clear,
                   writers, late_keys>>
    /\ UNCHANGED <<analysisVars, batchVars, pureVars>>

\* variant: the record is stored under the ticker alone, whatever the quarter
StoredCacheAnyQuarter(c, tk, q, rec) ==
    [k \in DOMAIN c \cup {CacheKey(tk, qq) : qq \in Quarters} |->
        IF k[1] = tk THEN rec ELSE c[k]]

\* `_cache[key] = result`
StoredCache(c, tk, q, rec) ==
    [k \in DOMAIN c \cup {CacheKey(tk, q)} |->
        IF k = CacheKey(tk, q) THEN rec ELSE c[k]]

\* variant: a record without any provider data is not kept
CacheableWithData(rec) == \E f \in DOMAIN rec : rec[f] \notin {NULL, "static"}

\* the store is unconditional: `_cache[key] = result` whatever result holds
Cacheable(rec) == TRUE

\* `_cache[key] = result` under the lock, then `return result`
Store(t) ==
    /\ thr[t].pc = "store"
    /\ cache_lock = t
    /\ cache' = IF Cacheable(thr[t].result)
                THEN StoredCache(cache, thr[t].ticker, thr[t].quarter, thr[t].result)
                ELSE cache
    /\ cache_lock' = Free
    /\ thr' = [thr EXCEPT ![t] = Ended(t, [@ EXCEPT !.pc = "done",
                                           !.degraded = AllFailed(thr[t].env)])]
    /\ writers' = [writers EXCEPT ![KeyOf(t)] = @ \cup {t}]
    /\ late_keys' = IF thr[t].pre_clear THEN late_keys \cup {KeyOf(t)} ELSE late_keys
    /\ Returned(t, thr[t].result)
    /\ UNCHANGED <<reset_pc, envs, ops_left, after_clear>>
    /\ UNCHANGED <<analysisVars, pureVars, tickers, quarter_end, max_workers,
                   progress_callback, main_pc, work_queue, results, done, progress>>

\* /api/reset calls clear_cache(); no run lock is taken
ResetCall ==
    /\ reset_pc = "idle"
    /\ ops_left > 0
    /\ ops_left' = ops_left - 1
    /\ reset_pc' = "lock"
    /\ returned_keys' = {}
    /\ thr' = [t \in Threads |-> [thr[t] EXCEPT !.expect_hit = FALSE,
                                                !.degraded = FALSE, !.owed = {}]]
    /\ UNCHANGED <<cache, cache_lock, envs, after_clear, writers, late_keys>>
    /\ UNCHANGED <<analysisVars, batchVars, pureVars>>

ResetAcquire ==
    /\ reset_pc = "lock"
    /\ cache_lock = Free
    /\ cache_lock' = Resetter
    /\ reset_pc' = "clear"
    /\ UNCHANGED <<cache, thr, envs, ops_left, returned_keys,
                   after_clear, writers, late_keys>>
    /\ UNCHANGED <<analysisVars, batchVars, pureVars>>

\* variant: clear_cache drops the entries of the current quarter only
ClearedCacheOneQuarter(c) ==
    [k \in {x \in DOMAIN c : x[2] # "2025-09-30"} |-> c[k]]

\* `_cache.clear()`
ClearedCache(c) == NoMap

ClearCache ==
    /\ reset_pc = "clear"
    /\ cache_lock = Resetter
    /\ cache' = ClearedCache(cache)
    /\ cache_lock' = Free
    /\ reset_pc' = "idle"
    /\ after_clear' = TRUE
    /\ returned_keys' = {}
    /\ writers' = [k \in DOMAIN writers |-> {}]
    /\ late_keys' = {}
    /\ thr' = [t \in Threads |->
                 [thr[t] EXCEPT !.expect_hit = FALSE,
                                !.degraded = FALSE, !.owed = {},
                                !.first_after_clear = FALSE,
                                !.pre_clear = thr[t].pc \notin {"idle", "done"}]]
    /\ UNCHANGED <<envs, ops_left>>
    /\ UNCHANGED <<analysisVars, batchVars, pureVars>>

FetchStep(t) ==
    \/ AcquireForCheck(t)
    \/ Check(t)
    \/ Compute(t)
    \/ AcquireForStore(t)
    \/ Store(t)

Reset == ResetCall \/ ResetAcquire \/ ClearCache


\* ------------------------------------------------------------------------
\* financial_data.batch_fetch_financial_data
\* ------------------------------------------------------------------------
BatchTickers == {"AAA", "BBB"}

\* `results = {}; total = len(tickers); done = 0; if not tickers: return results`
BatchStart ==
    /\ main_pc = "called"
    /\ main_pc' = IF tickers = <<>> THEN "returned" ELSE "submit"
    /\ results' = NoMap
    /\ done' = 0
    /\ UNCHANGED <<tickers, quarter_end, max_workers, progress_callback, futures,
                   work_queue, progress>>
    /\ UNCHANGED <<analysisVars, cacheVars, pureVars>>

\* `executor.submit(fetch_ticker_data, ticker, quarter_end)` for the next
\* ticker of the list
Submit ==
    /\ main_pc = "submit"
    /\ LET i == Len(futures) + 1
       IN  /\ futures' = Append(futures, [NoFuture EXCEPT !.state = "queued"])
           /\ work_queue' = Append(work_queue, i)
           /\ main_pc' = IF i = Len(tickers) THEN "collect" ELSE "submit"
    /\ UNCHANGED <<tickers, quarter_end, max_workers, progress_callback, results,
                   done, progress>>
    /\ UNCHANGED <<analysisVars, cacheVars, pureVars>>

\* variant: the pool runs a thread for every submitted call
PoolSizeUnbounded(workers) == NThreads

\* ThreadPoolExecutor(max_workers=max_workers): the threads the pool starts
PoolSize(workers) == workers

\* a free worker of the pool takes the oldest queued future and enters
\* fetch_ticker_data; the workers being interchangeable, the free worker of
\* lowest number is the one that takes it
WorkerTake(t) ==
    /\ t <= PoolSize(max_workers)
    /\ thr[t].pc = "idle"
    /\ \A u \in Threads : u < t => thr[u].pc # "idle"
    /\ work_queue # <<>>
    /\ LET j == Head(work_queue)
       IN  /\ StartFetch(t, tickers[j], quarter_end, j)
           /\ futures' = [futures EXCEPT ![j].state = "running"]
    /\ work_queue' = Tail(work_queue)
    /\ UNCHANGED <<cache, cache_lock, reset_pc, envs, ops_left, returned_keys,
                   writers, late_keys>>
    /\ UNCHANGED <<analysisVars, pureVars, tickers, quarter_end, max_workers,
                   progress_callback, main_pc, results, done, progress>>

\* an exception raised in a worker outside the try block of fetch_ticker_data
\* (lines 962-967 and 1175-1178, e.g. a MemoryError): the future holds it
WorkerFault(t) ==
    /\ thr[t].job # 0
    /\ thr[t].pc \in {"lock_check", "lock_store"}
    /\ thr' = [thr EXCEPT ![t] = IdleThread]
    /\ futures' = Finish(futures, thr[t].job, TRUE, EmptyResult)
    /\ UNCHANGED <<cache, cache_lock, reset_pc, envs, ops_left, returned_keys,
                   after_clear, writers, late_keys>>
    /\ UNCHANGED <<analysisVars, pureVars, tickers, quarter_end, max_workers,
                   progress_callback, main_pc, work_queue, results, done, progress>>

\* variant: a future that raised leaves no entry
StoreResultUnlessRaised(res, tk, fut) ==
    IF fut.exc THEN res
    ELSE [k \in DOMAIN res \cup {tk} |-> IF k = tk THEN fut.value ELSE res[k]]

\* `try: results[ticker] = future.result()
\*  except Exception: results[ticker] = _empty_result()`
StoreResult(res, tk, fut) ==
    [k \in DOMAIN res \cup {tk} |->
        IF k = tk THEN (IF fut.exc THEN EmptyResult ELSE fut.value) ELSE res[k]]

\* variant: only the futures that returned are counted
DoneAfterSuccessOnly(d, fut) == IF fut.exc THEN d ELSE d + 1

\* `done += 1`
DoneAfter(d, fut) == d + 1

\* one iteration of `for future in as_completed(future_to_ticker)`: any
\* finished future not yet yielded; the callback may raise, which is swallowed
Collect(i) ==
    /\ main_pc = "collect"
    /\ i \in DOMAIN futures
    /\ futures[i].state = "finished"
    /\ ~futures[i].yielded
    /\ futures' = [futures EXCEPT ![i].yielded = TRUE]
    /\ results' = StoreResult(results, tickers[i], futures[i])
    /\ done' = DoneAfter(done, futures[i])
    /\ IF progress_callback
       THEN \E cb_raises \in BOOLEAN :
               progress' = Append(progress, [done |-> done', total |-> Len(tickers),
                                             raised |-> cb_raises])
       ELSE UNCHANGED progress
    /\ UNCHANGED <<tickers, quarter_end, max_workers, progress_callback, main_pc,
                   work_queue>>
    /\ UNCHANGED <<analysisVars, cacheVars, pureVars>>

\* as_completed is exhausted, the executor is shut down: `return results`
BatchReturn ==
    /\ main_pc = "collect"
    /\ \A i \in DOMAIN futures : futures[i].yielded
    /\ main_pc' = "returned"
    /\ UNCHANGED <<tickers, quarter_end, max_workers, progress_callback, futures,
                   work_queue, results, done, progress>>
    /\ UNCHANGED <<analysisVars, cacheVars, pureVars>>

\* ------------------------------------------------------------------------
\* financial_data.normalize_sector_name / normalize_country_name
\* ------------------------------------------------------------------------
\* variant: a canonical name mapped back to a provider name
SECTOR_NAME_MAP_Cyclic ==
    ("Technology" :> "Information Technology")
    @@ ("Healthcare" :> "Health Care")
    @@ ("Consumer Cyclical" :> "Consumer Discretionary")
    @@ ("Consumer Defensive" :> "Consumer Staples")
    @@ ("Financial Services" :> "Financials")
    @@ ("Basic Materials" :> "Materials")
    @@ ("Communication" :> "Communication Services")
    @@ ("Communication Services" :> "Communication")
    @@ ("Energy" :> "Energy")
    @@ ("Industrials" :> "Industrials")
    @@ ("Real Estate" :> "Real Estate")
    @@ ("Utilities" :> "Utilities")

SECTOR_NAME_MAP ==
    ("Technology" :> "Information Technology")
    @@ ("Healthcare" :> "Health Care")
    @@ ("Consumer Cyclical" :> "Consumer Discretionary")
    @@ ("Consumer Defensive" :> "Consumer Staples")
    @@ ("Financial Services" :> "Financials")
    @@ ("Basic Materials" :> "Materials")
    @@ ("Communication" :> "Communication Services")
    @@ ("Communication Services" :> "Communication Services")
    @@ ("Energy" :> "Energy")
    @@ ("Industrials" :> "Industrials")
    @@ ("Real Estate" :> "Real Estate")
    @@ ("Utilities" :> "Utilities")

COUNTRY_NAME_MAP ==
    ("South Korea" :> "Korea (South)")
    @@ ("Korea, Republic of" :> "Korea (South)")
    @@ ("Republic of Korea" :> "Korea (South)")
    @@ ("Cayman Islands" :> "Cayman Islands")
    @@ ("Bermuda" :> "Bermuda")
    @@ ("Hong Kong SAR" :> "Hong Kong")

\* `not name`: None or the empty string
Falsy(name) == name = NULL \/ name = ""

\* dict.get(name, name)
GetOrSelf(table, name) == IF name \in DOMAIN table THEN table[name] ELSE name

normalize_sector_name(name) ==
    IF Falsy(name) THEN "Unknown" ELSE GetOrSelf(SECTOR_NAME_MAP, name)

normalize_country_name(name) ==
    IF Falsy(name) THEN "Unknown" ELSE GetOrSelf(COUNTRY_NAME_MAP, name)

NormalizeBy(fn, name) ==
    IF fn = "sector" THEN normalize_sector_name(name)
    ELSE normalize_country_name(name)

\* the labels passed in: nothing, every name of either table, every canonical
\* name, and names the tables do not know
NormLabels ==
    {NULL, "", "Unknown", "Conglomerates", "Japan", "United States"}
        \cup DOMAIN SECTOR_NAME_MAP \cup Range(SECTOR_NAME_MAP)
        \cup DOMAIN COUNTRY_NAME_MAP \cup Range(COUNTRY_NAME_MAP)

\* the function is applied to its argument
Normalize ==
    /\ norm_input.fn # "none"
    /\ norm_out = <<>>
    /\ norm_out' = <<NormalizeBy(norm_input.fn, norm_input.name)>>
    /\ UNCHANGED norm_input
    /\ UNCHANGED <<appVars, analysisVars, cacheVars, batchVars, statsVars>>

\* the function is applied to what it returned
NormalizeAgain ==
    /\ Len(norm_out) = 1
    /\ norm_out' = Append(norm_out, NormalizeBy(norm_input.fn, norm_out[1]))
    /\ UNCHANGED norm_input
    /\ UNCHANGED <<appVars, analysisVars, cacheVars, batchVars, statsVars>>

\* ------------------------------------------------------------------------
\* analysis.compute_summary_stats / compute_top_stocks_valuation
\* combined_weight is in units of 1e-4 percent, forward P/E and growth are
\* whole numbers, the averages are in hundredths (round(x, 2))
\* ------------------------------------------------------------------------
\* the caller's all_rows after a function that weights a non-empty input
InputAfter(rows, mw) ==
    IF rows = <<>> THEN rows ELSE apply_manager_weights(rows, mw).input

\* variant: the growth value is used as it is
clamp_growth_identity(val) == val

\* _clamp_growth, _GROWTH_CAP = 50.0
clamp_growth(val) ==
    IF val = NoNum THEN NoNum ELSE Some(Max(-50, Min(50, val[1])))

\* the defaultdict's fresh entry
NewTickerData ==
    [combined_weight |-> 0, name |-> "", ticker |-> "", managers |-> {},
     sector |-> NULL, forward_pe |-> NoNum, forward_eps_growth |-> NoNum,
     forward_revenue_growth |-> NoNum]

\* the sector kept by the loop: compute_summary_stats assigns every truthy
\* sector, compute_top_stocks_valuation only while the entry has none
SectorAfter(fn, old, v) ==
    IF fn = "summary" THEN (IF Truthy(v) THEN v ELSE old)
    ELSE FirstTruthy(old, v)

\* one iteration of `for r in weighted_rows` on the entry d of r's ticker
MergedTickerData(fn, d, r) ==
    [combined_weight |-> d.combined_weight + r.combined_weight,
     name |-> r.name,
     ticker |-> r.ticker,
     managers |-> IF fn = "summary" THEN d.managers \cup {r.manager} ELSE {},
     sector |-> SectorAfter(fn, d.sector, Get(r, "sector")),
     forward_pe |-> FirstNum(d.forward_pe, GetNum(r, "forward_pe")),
     forward_eps_growth |->
        FirstNum(d.forward_eps_growth, GetNum(r, "forward_eps_growth")),
     forward_revenue_growth |->
        FirstNum(d.forward_revenue_growth, GetNum(r, "forward_revenue_growth"))]

\* pct_by_ticker / by_ticker after the loop, in insertion order; fn names the
\* function whose loop it is
RECURSIVE DedupByTicker(_, _, _)
DedupByTicker(fn, rows, acc) ==
    IF rows = <<>> THEN acc
    ELSE
      LET r == Head(rows)
          i == TickerIndex(acc, r.ticker)
          acc2 == IF r.ticker = NA THEN acc
                  ELSE IF i = 0
                  THEN Append(acc, MergedTickerData(fn, NewTickerData, r))
                  ELSE [acc EXCEPT ![i] = MergedTickerData(fn, @, r)]
      IN  DedupByTicker(fn, Tail(rows), acc2)

\* w: tk_data["combined_weight"] in the statistics, s["pct"] in the table
WeightOf(e) == IF "pct" \in DOMAIN e THEN e.pct ELSE e.combined_weight

\* pct_by_ticker / by_ticker of a call on rows, empty on the early return
Deduplicated(fn, rows, mw) ==
    IF rows = <<>> THEN <<>>
    ELSE DedupByTicker(fn, apply_manager_weights(rows, mw).weighted, <<>>)

\* `if d[field] is None and r.get(field) is not None`, on a string
FirstNotNone(old, v) == IF old = NULL /\ v # NULL THEN v ELSE old

\* holdings.write_weighted_xlsx: by_ticker after the loop
RECURSIVE XlsxByTicker(_, _)
XlsxByTicker(rows, acc) ==
    IF rows = <<>> THEN acc
    ELSE
      LET r == Head(rows)
          k == TickerKey(r)
          i == KeyIndex(acc, k)
          d == IF i = 0
               THEN [key |-> k, ticker |-> r.ticker, name |-> r.name,
                     combined_weight |-> 0, total_value |-> 0, managers |-> {},
                     sector |-> NULL, forward_pe |-> NoNum,
                     forward_eps_growth |-> NoNum, qtd_return_pct |-> NoNum]
               ELSE acc[i]
          d2 == [d EXCEPT
                   !.combined_weight = @ + r.combined_weight,
                   !.total_value = @ + r.value_usd,
                   !.managers = @ \cup {r.manager},
                   !.sector = FirstNotNone(@, Get(r, "sector")),
                   !.forward_pe = FirstNum(@, GetNum(r, "forward_pe")),
                   !.forward_eps_growth = FirstNum(@, GetNum(r, "forward_eps_growth")),
                   !.qtd_return_pct = FirstNum(@, GetNum(r, "qtd_return_pct"))]
      IN  XlsxByTicker(Tail(rows),
                       IF i = 0 THEN Append(acc, d2) ELSE [acc EXCEPT ![i] = d2])

\* the entries a weighted average runs over: `if w <= 0: continue`
Weighing(by) == {i \in DOMAIN by : WeightOf(by[i]) > 0}

\* variant: round(sum(w * pe) / sum(w), 2)
WeightedArithmeticMean(by, field) ==
    LET q == {i \in Weighing(by) : by[i][field] # NoNum /\ by[i][field][1] > 0}
        w == Reduced([i \in q |-> WeightOf(by[i])], q)
        W == SumOver(w, q)
        S == SumOver([i \in q |-> w[i] * by[i][field][1]], q)
    IN  IF q = {} THEN NoNum ELSE Some(RoundDiv(100 * S, W))

\* round(wtd_inv_pe_wt / wtd_inv_pe_sum, 2) if wtd_inv_pe_sum > 0 else None
\* with sum(w / pe) written over the common denominator P
WeightedHarmonicMean(by, field) ==
    LET q == {i \in Weighing(by) : by[i][field] # NoNum /\ by[i][field][1] > 0}
        P == ProdOver([i \in q |-> by[i][field][1]], q)
        w == Reduced([i \in q |-> WeightOf(by[i])], q)
        W == SumOver(w, q)
        S == SumOver([i \in q |-> w[i] * (P \div by[i][field][1])], q)
    IN  IF q = {} THEN NoNum ELSE Some(RoundDiv(100 * W * P, S))

\* round(wtd_eg_sum / wtd_eg_wt, 2) if wtd_eg_wt > 0 else None
WeightedGrowth(by, field) ==
    LET q == {i \in Weighing(by) : clamp_growth(by[i][field]) # NoNum}
        w == Reduced([i \in q |-> WeightOf(by[i])], q)
        W == SumOver(w, q)
        S == SumOver([i \in q |-> w[i] * clamp_growth(by[i][field])[1]], q)
    IN  IF q = {} THEN NoNum ELSE Some(RoundDiv(100 * S, W))

\* round(qtd_sum / qtd_wt, 2) if qtd_wt > 0 else None
WeightedMean(by, field) ==
    LET q == {i \in Weighing(by) : by[i][field] # NoNum}
        w == Reduced([i \in q |-> WeightOf(by[i])], q)
        W == SumOver(w, q)
        S == SumOver([i \in q |-> w[i] * by[i][field][1]], q)
    IN  IF q = {} THEN NoNum ELSE Some(RoundDiv(100 * S, W))

\* round(combined_weight, 2): hundredths of a percent
Round2(w) == RoundDiv(w, 100)

\* month_labels: the months of the first stock that has monthly_returns
MonthLabels(all_stocks) ==
    LET having == {i \in DOMAIN all_stocks : all_stocks[i].monthly_returns # <<>>}
    IN  IF having = {} THEN <<>>
        ELSE LET mr == all_stocks[CHOOSE i \in having :
                                      \A j \in having : i <= j].monthly_returns
             IN  [mi \in DOMAIN mr |-> mr[mi].month]

\* monthly_totals[mi]: the weighted mean of the mi-th monthly return
MonthlyTotal(all_stocks, mi) ==
    LET q == {i \in Weighing(all_stocks) :
                 /\ mi <= Len(all_stocks[i].monthly_returns)
                 /\ all_stocks[i].monthly_returns[mi].return_pct # NoNum}
        w == Reduced([i \in q |-> WeightOf(all_stocks[i])], q)
        W == SumOver(w, q)
        S == SumOver([i \in q |->
                w[i] * all_stocks[i].monthly_returns[mi].return_pct[1]], q)
    IN  IF q = {} THEN NoNum ELSE Some(RoundDiv(100 * S, W))

\* variant: the totals are taken over the displayed rows
TotalledStocksDisplayed(all_stocks, n) ==
    SubSeq(all_stocks, 1, Min(n, Len(all_stocks)))

\* "Compute totals from ALL holdings (not just top_n)"
TotalledStocks(all_stocks, n) == all_stocks

TableTotals(stocks) ==
    LET labels == MonthLabels(stocks) IN
    [pct |-> Round2(SumSeq([i \in DOMAIN stocks |-> stocks[i].pct])),
     qtd_return |-> WeightedMean(stocks, "qtd_return"),
     forward_pe |-> WeightedHarmonicMean(stocks, "forward_pe"),
     forward_eps_growth |-> WeightedGrowth(stocks, "forward_eps_growth"),
     monthly_returns |->
        [mi \in DOMAIN labels |->
            [month |-> labels[mi], return_pct |-> MonthlyTotal(stocks, mi)]]]

\* s.get("sector") or "-"
OrDash(v) == IF Truthy(v) THEN v ELSE "-"

DisplayRow(st) ==
    [pct |-> Round2(st.pct), name |-> st.name, ticker |-> st.ticker,
     sector |-> OrDash(st.sector), industry |-> OrDash(st.industry),
     qtd_return |-> st.qtd_return, forward_pe |-> st.forward_pe,
     forward_eps_growth |-> st.forward_eps_growth,
     monthly_returns |-> st.monthly_returns]

\* _build_table(rows, use_combined_weight) with the enclosing top_n
BuildTable(rows, use_combined_weight, n) ==
    LET all_stocks == AllStocks(rows, use_combined_weight)
        shown == SubSeq(all_stocks, 1, Min(n, Len(all_stocks)))
    IN  [rows |-> [i \in DOMAIN shown |-> DisplayRow(shown[i])],
         totals |-> TableTotals(TotalledStocks(all_stocks, n))]

NoTable == [rows |-> <<>>, totals |-> [k \in {} |-> NoNum]]

\* variant: the entries without forward P/E or growth are listed as well
ValuationListsAny(s) == TRUE

\* `s["forward_pe"] is not None and s["forward_eps_growth"] is not None`
ValuationLists(s) == s.forward_pe # NoNum /\ s.forward_eps_growth # NoNum

ValuationStock(s) ==
    [ticker |-> s.ticker, name |-> s.name, pct |-> Round2(s.combined_weight),
     forward_pe |-> s.forward_pe, forward_eps_growth |-> s.forward_eps_growth,
     sector |-> s.sector, forward_revenue_growth |-> s.forward_revenue_growth]

\* the loop over all_tickers: append, then `if len(stocks) >= top_n: break`
RECURSIVE TopStocks(_, _, _)
TopStocks(all_tickers, n, stocks) ==
    IF all_tickers = <<>> THEN stocks
    ELSE
      LET s == Head(all_tickers) IN
      IF ValuationLists(s)
      THEN LET stocks2 == Append(stocks, ValuationStock(s))
           IN  IF Len(stocks2) >= n THEN stocks2
               ELSE TopStocks(Tail(all_tickers), n, stocks2)
      ELSE TopStocks(Tail(all_tickers), n, stocks)

NoMapStr == [k \in {} |-> NoNum]

compute_top_stocks_valuation(rows, mw, n) ==
    IF rows = <<>> THEN [stocks |-> <<>>, portfolio_avg |-> NoMapStr]
    ELSE
      LET weighted_rows == apply_manager_weights(rows, mw).weighted
          by == DedupByTicker("valuation", weighted_rows, <<>>)
          all_tickers == SortBy(by, [i \in DOMAIN by |-> <<-by[i].combined_weight>>])
      IN  [stocks |-> TopStocks(all_tickers, n, <<>>),
           portfolio_avg |->
              [forward_pe |-> WeightedHarmonicMean(by, "forward_pe"),
               eps_growth |-> WeightedGrowth(by, "forward_eps_growth"),
               rev_growth |-> WeightedGrowth(by, "forward_revenue_growth")]]

\* top_by_pct = sorted(...)[:10]
TopByPct == 10

SummaryStock(s) ==
    [ticker |-> s.ticker, name |-> s.name, pct |-> Round2(s.combined_weight),
     manager_count |-> Cardinality(s.managers), sector |-> s.sector]

\* the part of the returned dict built from pct_by_ticker
compute_summary_stats(rows, mw) ==
    IF rows = <<>> THEN NoMapStr
    ELSE
      LET weighted_rows == apply_manager_weights(rows, mw).weighted
          by == DedupByTicker("summary", weighted_rows, <<>>)
          sorted == SortBy(by, [i \in DOMAIN by |-> <<-by[i].combined_weight>>])
          top_by_pct == SubSeq(sorted, 1, Min(TopByPct, Len(sorted)))
      IN  [total_holdings |-> Len(rows),
           top_stocks_by_pct |->
              [i \in DOMAIN top_by_pct |-> SummaryStock(top_by_pct[i])],
           weighted_forward_pe |-> WeightedHarmonicMean(by, "forward_pe"),
           weighted_eps_growth |-> WeightedGrowth(by, "forward_eps_growth"),
           weighted_rev_growth |-> WeightedGrowth(by, "forward_revenue_growth")]

\* ------------------------------------------------------------------------
\* analysis.compute_sector_breakdown / compute_geo_breakdown /
\* compute_sector_treemap / compute_geo_treemap: the per-category aggregates
\* ------------------------------------------------------------------------
\* r.get(field) or "Unknown"
CategoryOf(r, field) ==
    LET v == Get(r, field) IN IF Truthy(v) THEN v ELSE "Unknown"

NameIndex(acc, name) ==
    IF \E i \in DOMAIN acc : acc[i].name = name
    THEN CHOOSE i \in DOMAIN acc : acc[i].name = name
    ELSE 0

\* sector_data / country_data / group_data after the loop, in insertion
\* order: value, count and the combined weights of the records of a category
RECURSIVE CategoryData(_, _, _)
CategoryData(rows, field, acc) ==
    IF rows = <<>> THEN acc
    ELSE
      LET r == Head(rows)
          name == CategoryOf(r, field)
          i == NameIndex(acc, name)
          old == IF i = 0 THEN [name |-> name, value |-> 0, count |-> 0, weight |-> 0]
                 ELSE acc[i]
          new == [old EXCEPT
                    !.value = @ + r.value_usd,
                    !.count = @ + 1,
                    !.weight = @ + (IF "combined_weight" \in DOMAIN r
                                    THEN r.combined_weight ELSE 0)]
      IN  CategoryData(Tail(rows), field,
                       IF i = 0 THEN Append(acc, new) ELSE [acc EXCEPT ![i] = new])

\* total_value = sum(...); if total_value == 0: total_value = 1
TotalValue(rows) ==
    LET t == SumSeq([i \in DOMAIN rows |-> rows[i].value_usd])
    IN  IF t = 0 THEN 1 ELSE t

\* variant: pct as the share of the records, `count / len(all_rows)`
BreakdownListByCount(data, total) ==
    LET n == SumSeq([i \in DOMAIN data |-> data[i].count])
        list == [i \in DOMAIN data |->
                    [name |-> data[i].name, total_value |-> data[i].value,
                     pct |-> RoundDiv(data[i].count * 10000, n),
                     count |-> data[i].count]]
    IN  SortBy(list, [i \in DOMAIN list |-> <<-list[i].total_value>>])

\* the list built from the aggregates, pct = round(value / total * 100, 2) in
\* hundredths, sorted by -total_value
BreakdownList(data, total) ==
    LET list == [i \in DOMAIN data |->
                    [name |-> data[i].name, total_value |-> data[i].value,
                     pct |-> RoundDiv(data[i].value * 10000, total),
                     count |-> data[i].count]]
    IN  SortBy(list, [i \in DOMAIN list |-> <<-list[i].total_value>>])

\* norm_agg: the categories of list under their normalized names
RECURSIVE NormAgg(_, _, _)
NormAgg(list, fn, acc) ==
    IF list = <<>> THEN acc
    ELSE
      LET c == Head(list)
          name == NormalizeBy(fn, c.name)
          i == NameIndex(acc, name)
          old == IF i = 0 THEN [name |-> name, value |-> 0, count |-> 0, weight |-> 0]
                 ELSE acc[i]
          new == [old EXCEPT !.value = @ + c.total_value, !.count = @ + c.count]
      IN  NormAgg(Tail(list), fn,
                  IF i = 0 THEN Append(acc, new) ELSE [acc EXCEPT ![i] = new])

compute_sector_breakdown(rows) ==
    LET total == TotalValue(rows)
        sectors == BreakdownList(CategoryData(rows, "sector", <<>>), total)
    IN  [sectors |-> sectors,
         normalized_sectors |-> BreakdownList(NormAgg(sectors, "sector", <<>>), total),
         industries |-> BreakdownList(CategoryData(rows, "industry", <<>>), total),
         by_manager |->
            [m \in ManagersOf(rows) |->
                BreakdownList(
                    CategoryData(SelectSeq(rows, LAMBDA r : r.manager = m),
                                 "sector", <<>>),
                    TotalValue(SelectSeq(rows, LAMBDA r : r.manager = m)))]]

compute_geo_breakdown(rows) ==
    LET total == TotalValue(rows)
        countries == BreakdownList(CategoryData(rows, "country", <<>>), total)
    IN  [countries |-> countries,
         normalized_countries |->
            BreakdownList(NormAgg(countries, "country", <<>>), total)]

\* `[:10]` of top_stocks
TopStocksShown == 10

\* the entry appended to d["stocks"] for the weighted record r
TreemapStock(r) ==
    [ticker |-> r.ticker, name |-> r.name, value |-> r.value_usd,
     manager |-> r.manager, weight_in_combined |-> r.combined_weight]

\* variant: one entry per ticker (or name without ticker) with the summed
\* weight, under the manager of its first record
RECURSIVE TreemapStocksMerged(_)
TreemapStocksMerged(rows) ==
    IF rows = <<>> THEN <<>>
    ELSE LET r == rows[Len(rows)]
             before == TreemapStocksMerged(SubSeq(rows, 1, Len(rows) - 1))
             at == {i \in DOMAIN before : TickerKey(before[i]) = TickerKey(r)}
         IN  IF at = {} THEN Append(before, TreemapStock(r))
             ELSE [i \in DOMAIN before |->
                     IF i \in at
                     THEN [before[i] EXCEPT
                             !.weight_in_combined = @ + r.combined_weight,
                             !.value = @ + r.value_usd]
                     ELSE before[i]]

\* d["stocks"]: one entry for every weighted record of the category
TreemapStocks(rows) == [i \in DOMAIN rows |-> TreemapStock(rows[i])]

\* the managers of rows in the order of their first record
RECURSIVE ManagersInOrder(_)
ManagersInOrder(rows) ==
    IF rows = <<>> THEN <<>>
    ELSE LET before == ManagersInOrder(SubSeq(rows, 1, Len(rows) - 1))
             m == rows[Len(rows)].manager
         IN  IF m \in Range(before) THEN before ELSE Append(before, m)

\* mgr_shares: value per manager and round(v / (d["value"] or 1) * 100, 1) in
\* tenths of a percent, sorted by -value
ManagerShares(rows) ==
    LET total == SumSeq([i \in DOMAIN rows |-> rows[i].value_usd])
        mgr_total == IF total = 0 THEN 1 ELSE total
        ms == ManagersInOrder(rows)
        v(m) == LET mine == SelectSeq(rows, LAMBDA r : r.manager = m)
                IN  SumSeq([i \in DOMAIN mine |-> mine[i].value_usd])
        list == [i \in DOMAIN ms |->
                    [manager |-> ms[i], value |-> v(ms[i]),
                     pct_of_sector |-> RoundDiv(v(ms[i]) * 1000, mgr_total)]]
    IN  SortBy(list, [i \in DOMAIN list |-> <<-list[i].value>>])

\* _build_group: pct = round(sum of weight_in_combined, 2), sorted by -pct
TreemapGroup(weighted_rows, field) ==
    LET data == CategoryData(weighted_rows, field, <<>>)
        members(i) == SelectSeq(weighted_rows,
                          LAMBDA r : CategoryOf(r, field) = data[i].name)
        stocks(i) == TreemapStocks(members(i))
        top(i) == LET sorted == SortBy(stocks(i), [j \in DOMAIN stocks(i) |->
                                    <<-stocks(i)[j].weight_in_combined>>])
                  IN  SubSeq(sorted, 1, Min(TopStocksShown, Len(sorted)))
        list == [i \in DOMAIN data |->
                    [name |-> data[i].name,
                     pct |-> Round2(SumSeq([j \in DOMAIN stocks(i) |->
                                               stocks(i)[j].weight_in_combined])),
                     total_value |-> data[i].value, count |-> data[i].count,
                     manager_shares |-> ManagerShares(members(i)),
                     top_stocks |-> top(i)]]
    IN  SortBy(list, [i \in DOMAIN list |-> <<-list[i].pct>>])

compute_sector_treemap(rows, mw) ==
    IF rows = <<>> THEN [sectors |-> <<>>, industries |-> <<>>]
    ELSE LET weighted_rows == apply_manager_weights(rows, mw).weighted
         IN  [sectors |-> TreemapGroup(weighted_rows, "sector"),
              industries |-> TreemapGroup(weighted_rows, "industry")]

compute_geo_treemap(rows, mw) ==
    IF rows = <<>> THEN [countries |-> <<>>]
    ELSE LET weighted_rows == apply_manager_weights(rows, mw).weighted
         IN  [countries |-> TreemapGroup(weighted_rows, "country")]

\* ------------------------------------------------------------------------
\* The divisions a call evaluates, each with the value of its divisor: the
\* call ends in a ZeroDivisionError when one of them is zero
\* ------------------------------------------------------------------------
Division(at, divisor) == [at |-> at, divisor |-> divisor]

ZeroDivision(sites) == \E d \in sites : d.divisor = 0

\* variant: the equal share is computed once, before the comprehension
EqualShareEvaluationsHoisted(rows, mw) ==
    IF UseGivenWeights(mw) THEN {} ELSE {"once"}

\* `{m: 100.0 / len(managers) for m in managers}` divides once per manager
EqualShareEvaluations(rows, mw) ==
    IF UseGivenWeights(mw) THEN {} ELSE ManagersOf(rows)

ApplyWeightsDivisions(rows, mw) ==
    {Division("100.0 / len(managers)", Cardinality(ManagersOf(rows))) :
        m \in EqualShareEvaluations(rows, mw)}
    \cup {Division("mw / total_wt", TotalWt(MgrWt(rows, mw)).num) :
            i \in DOMAIN rows}

\* the functions that begin with `if not all_rows: return ...` and then call
\* _apply_manager_weights; their own quotients are each taken under an
\* `if ... > 0` or `... or 1` guard
WeightedCallDivisions(rows, mw) ==
    IF rows = <<>> THEN {} ELSE ApplyWeightsDivisions(rows, mw)

\* value / total_value per category and per manager, sum(pcts) / len(pcts)
BreakdownDivisions(rows, field) ==
    {Division("value / total_value", TotalValue(rows)) :
        i \in DOMAIN CategoryData(rows, field, <<>>)}

OverlapDivisions(rows) ==
    LET td == OverlapTickerData(rows, <<>>)
    IN  {Division("sum(pcts) / len(pcts)", Len(td[i].pcts)) :
            i \in {j \in DOMAIN td : OverlapEmits(td[j])}}

\* ------------------------------------------------------------------------
\* Analytics: inputs and calls
\* ------------------------------------------------------------------------
\* The run handlers of the web applications (13F_stocks_app.py, bentley_app.py)
\* ------------------------------------------------------------------------

MaxRuns == 2          \* accepted runs a behaviour may hold
MaxManagers == 1      \* managers a configuration may name

\* Events put on a run's progress queue: the "type" key, and the "aborted"
\* key of a "complete" event.
Ev(type) == [type |-> type, aborted |-> FALSE]

CompleteEv(aborted) == [type |-> "complete", aborted |-> aborted]

\* The run requests each application serves.
RunRequests(application) ==
    IF application = "13F" THEN {"api_run", "api_run_diff"} ELSE {"start_run"}

NoHandler == [pc |-> "none", kind |-> "none", stopped |-> FALSE]

NoResponse == [status |-> 0]

\* A worker thread that has ended: its locals are gone.
EndedWorker(kind) ==
    [kind |-> kind, pc |-> "ended", n |-> 0, i |-> 0, combined |-> FALSE,
     skipped |-> FALSE, stopped |-> FALSE, stop_at |-> 0]

\* The thread started by a run handler: n managers configured, none fetched.
\* stopped / stop_at record whether /api/stop arrived since the handler
\* cleared the flag, and the length of the queue when it first did.
NewWorker(kind, n, stopped) ==
    [kind |-> kind, pc |-> "begin", n |-> n, i |-> 1, combined |-> FALSE,
     skipped |-> FALSE, stopped |-> stopped, stop_at |-> 0]

\* No run was ever requested.
NoRun ==
    /\ app = "13F"
    /\ run_lock = FALSE
    /\ abort_flag = FALSE
    /\ progress_queues = <<>>
    /\ worker = <<>>
    /\ handler = NoHandler
    /\ response = NoResponse
    /\ last_results = 0
    /\ diff_results = 0

\* run_lock.acquire(blocking=False) on a free lock would succeed whatever
\* the lock's state in this variant.
TryAcquireAlways(lock) == TRUE

\* run_lock.acquire(blocking=False): succeeds exactly when the lock is free.
TryAcquire(lock) == ~lock

FirstStep(kind) ==
    CASE kind = "api_run" -> "clear"
      [] kind = "api_run_diff" -> "body"
      [] OTHER -> "load"

\* A run request arrives: the handler's first statement.  A failed acquire
\* answers 409 and the handler returns.
Request(kind) ==
    /\ kind \in RunRequests(app)
    /\ IF TryAcquire(run_lock)
       THEN /\ handler.pc = "none"
            /\ Len(progress_queues) < MaxRuns
            /\ run_lock' = TRUE
            /\ handler' = [pc |-> FirstStep(kind), kind |-> kind,
                           stopped |-> FALSE]
            /\ response' = [status |-> 0]
       ELSE /\ response' = [status |-> 409]
            /\ UNCHANGED <<run_lock, handler>>
    /\ UNCHANGED <<app, abort_flag, progress_queues, worker, last_results,
                   diff_results>>
    /\ UNCHANGED <<analysisVars, cacheVars, batchVars, norm_input, norm_out,
                   statsVars>>

\* api_run: abort_flag.clear()
ApiRunClear ==
    /\ handler.pc = "clear"
    /\ abort_flag' = FALSE
    /\ handler' = [handler EXCEPT !.pc = "load", !.stopped = FALSE]
    /\ UNCHANGED <<app, run_lock, progress_queues, worker, response,
                   last_results, diff_results>>
    /\ UNCHANGED <<analysisVars, cacheVars, batchVars, norm_input, norm_out,
                   statsVars>>

\* The request bodies /api/run-diff may get: both dates, a date missing,
\* or no JSON object at all (request.json raises or is None).
DiffBodies == {"ok", "no_dates", "invalid"}

\* api_run_diff: the body is read and checked.
ApiRunDiffBody(body) ==
    /\ handler.pc = "body"
    /\ CASE body = "ok" ->
              /\ handler' = [handler EXCEPT !.pc = "load"]
              /\ UNCHANGED <<run_lock, response>>
         [] body = "no_dates" ->
              /\ run_lock' = FALSE
              /\ handler' = NoHandler
              /\ response' = [status |-> 400]
         [] OTHER ->
              /\ handler' = NoHandler
              /\ response' = [status |-> 500]
              /\ UNCHANGED run_lock
    /\ UNCHANGED <<app, abort_flag, progress_queues, worker, last_results,
                   diff_results>>
    /\ UNCHANGED <<analysisVars, cacheVars, batchVars, norm_input, norm_out,
                   statsVars>>

\* cfg = load_config(), then the queue is registered and the worker thread
\* started.  load_config raises on an unreadable or malformed config file.
LoadAndStart(ok, n) ==
    /\ handler.pc = "load"
    /\ IF ok
       THEN /\ progress_queues' = Append(progress_queues, <<>>)
            /\ worker' = Append(worker,
                                NewWorker(handler.kind, n, handler.stopped))
            /\ response' = [status |-> 200]
       ELSE /\ response' = [status |-> 500]
            /\ UNCHANGED <<progress_queues, worker>>
    /\ handler' = NoHandler
    /\ UNCHANGED <<app, run_lock, abort_flag, last_results, diff_results>>
    /\ UNCHANGED <<analysisVars, cacheVars, batchVars, norm_input, norm_out,
                   statsVars>>

Running(w) == worker[w].pc # "ended"

\* /api/stop: abort_flag.set()
ApiStop ==
    /\ app = "13F"
    /\ abort_flag' = TRUE
    /\ handler' = IF handler.pc = "load" /\ handler.kind = "api_run"
                  THEN [handler EXCEPT !.stopped = TRUE] ELSE handler
    /\ worker' = [w \in DOMAIN worker |->
                    IF Running(w) /\ worker[w].kind = "api_run"
                       /\ ~worker[w].stopped
                    THEN [worker[w] EXCEPT !.stopped = TRUE,
                                           !.stop_at = Len(progress_queues[w])]
                    ELSE worker[w]]
    /\ UNCHANGED <<app, run_lock, progress_queues, response, last_results,
                   diff_results>>
    /\ UNCHANGED <<analysisVars, cacheVars, batchVars, norm_input, norm_out,
                   statsVars>>

Put(w, events) ==
    progress_queues' = [progress_queues EXCEPT ![w] = @ \o events]

\* The worker's frame: what no step of a worker thread touches.
WorkerFrame ==
    /\ UNCHANGED <<app, abort_flag, handler, response>>
    /\ UNCHANGED <<analysisVars, cacheVars, batchVars, norm_input, norm_out,
                   statsVars>>

\* The thread ends: the finally clause releases run_lock.
Finally(w) ==
    /\ run_lock' = FALSE
    /\ worker' = [worker EXCEPT ![w] = EndedWorker(worker[w].kind)]

\* run_fetch: reload(holdings) and set_identity, outside any try, then the
\* first log line.
RunFetchBegin(w, ok) ==
    /\ worker[w].kind = "api_run"
    /\ worker[w].pc = "begin"
    /\ IF ok
       THEN /\ Put(w, <<Ev("log")>>)
            /\ worker' = [worker EXCEPT ![w].pc = "check"]
            /\ UNCHANGED run_lock
       ELSE /\ Finally(w)
            /\ UNCHANGED progress_queues
    /\ UNCHANGED <<last_results, diff_results>>
    /\ WorkerFrame

\* The head of the manager loops: if abort_flag.is_set(): log; break
RunFetchCheck(w) ==
    /\ worker[w].kind = "api_run"
    /\ worker[w].pc = "check"
    /\ IF worker[w].i > worker[w].n
       THEN /\ worker' = [worker EXCEPT ![w].pc = "enrich"]
            /\ UNCHANGED progress_queues
       ELSE IF abort_flag
            THEN /\ Put(w, <<Ev("log")>>)
                 /\ worker' = [worker EXCEPT ![w].pc = "enrich",
                                             ![w].skipped = TRUE]
            ELSE /\ worker' = [worker EXCEPT ![w].pc = "start"]
                 /\ UNCHANGED progress_queues
    /\ UNCHANGED <<run_lock, last_results, diff_results>>
    /\ WorkerFrame

\* q.put manager_start, then the fetch of the manager inside try/except,
\* manager_done and progress.
RunFetchManager(w, fetched) ==
    /\ worker[w].kind = "api_run"
    /\ worker[w].pc = "start"
    /\ Put(w, <<Ev("manager_start"), Ev("log"), Ev("log"),
                Ev("manager_done"), Ev("progress")>>)
    /\ worker' = [worker EXCEPT ![w].pc = "check", ![w].i = @ + 1,
                                ![w].combined = @ \/ fetched]
    /\ UNCHANGED <<run_lock, last_results, diff_results>>
    /\ WorkerFrame

\* The enrichment block: everything in it is inside try/except.
RunFetchEnrich(w, ok) ==
    /\ worker[w].kind = "api_run"
    /\ worker[w].pc = "enrich"
    /\ IF worker[w].combined
       THEN Put(w, IF ok THEN <<Ev("log"), Ev("enrich_start"), Ev("log")>>
                         ELSE <<Ev("log"), Ev("log")>>)
       ELSE ok /\ UNCHANGED progress_queues
    /\ worker' = [worker EXCEPT ![w].pc = "files"]
    /\ UNCHANGED <<run_lock, last_results, diff_results>>
    /\ WorkerFrame

\* The report files: write_combined_xlsx is called outside any try.
RunFetchFiles(w, ok) ==
    /\ worker[w].kind = "api_run"
    /\ worker[w].pc = "files"
    /\ IF ~worker[w].combined
       THEN /\ ok
            /\ worker' = [worker EXCEPT ![w].pc = "complete"]
            /\ UNCHANGED <<progress_queues, run_lock>>
       ELSE IF ok
            THEN /\ Put(w, <<Ev("log"), Ev("log"), Ev("log")>>)
                 /\ worker' = [worker EXCEPT ![w].pc = "complete"]
                 /\ UNCHANGED run_lock
            ELSE /\ Finally(w)
                 /\ UNCHANGED progress_queues
    /\ UNCHANGED <<last_results, diff_results>>
    /\ WorkerFrame

\* aborted = abort_flag.is_set(); log; q.put complete; return res
RunFetchComplete(w) ==
    /\ worker[w].kind = "api_run"
    /\ worker[w].pc = "complete"
    /\ Put(w, <<Ev("log"), CompleteEv(abort_flag)>>)
    /\ worker' = [worker EXCEPT ![w].pc = "save"]
    /\ UNCHANGED <<run_lock, last_results, diff_results>>
    /\ WorkerFrame

\* _go of api_run after run_fetch returned: last_results is assigned, the
\* run is saved when it has rows, and the lock is released.
ApiRunSave(w, saved) ==
    /\ worker[w].kind = "api_run"
    /\ worker[w].pc = "save"
    /\ last_results' = w
    /\ IF worker[w].combined /\ ~saved
       THEN Put(w, <<Ev("log")>>)
       ELSE saved /\ UNCHANGED progress_queues
    /\ Finally(w)
    /\ UNCHANGED diff_results
    /\ WorkerFrame

\* _go of api_run_diff: everything is inside the try; reload or
\* set_identity may raise.
DiffBegin(w, ok) ==
    /\ worker[w].kind = "api_run_diff"
    /\ worker[w].pc = "begin"
    /\ IF ok
       THEN /\ Put(w, <<Ev("log")>>)
            /\ worker' = [worker EXCEPT ![w].pc = "fetch"]
            /\ UNCHANGED run_lock
       ELSE /\ Finally(w)
            /\ UNCHANGED progress_queues
    /\ UNCHANGED <<last_results, diff_results>>
    /\ WorkerFrame

\* The two fetches of a manager, each inside try/except, each followed by
\* a progress event.
DiffManager(w) ==
    /\ worker[w].kind = "api_run_diff"
    /\ worker[w].pc = "fetch"
    /\ worker[w].i <= worker[w].n
    /\ Put(w, <<Ev("log"), Ev("progress"), Ev("log"), Ev("progress")>>)
    /\ worker' = [worker EXCEPT ![w].i = @ + 1]
    /\ UNCHANGED <<run_lock, last_results, diff_results>>
    /\ WorkerFrame

\* diff_results = compute_qoq_diff(...); log; q.put complete; finally
DiffComplete(w) ==
    /\ worker[w].kind = "api_run_diff"
    /\ worker[w].pc = "fetch"
    /\ worker[w].i > worker[w].n
    /\ diff_results' = w
    /\ Put(w, <<Ev("log"), CompleteEv(FALSE)>>)
    /\ Finally(w)
    /\ UNCHANGED last_results
    /\ WorkerFrame

\* bentley_app _run: run_fetch returns, having put its events and complete,
\* or raises; finally releases the lock.
BentleyRun(w, ok) ==
    /\ worker[w].kind = "start_run"
    /\ worker[w].pc = "begin"
    /\ IF ok
       THEN /\ Put(w, <<Ev("log"), Ev("progress"), CompleteEv(FALSE)>>)
            /\ last_results' = w
       ELSE UNCHANGED <<progress_queues, last_results>>
    /\ Finally(w)
    /\ UNCHANGED diff_results
    /\ WorkerFrame

\* ------------------------------------------------------------------------
MgrIdx(m) == CHOOSE i \in DOMAIN Managers : Managers[i] = m

SeqsUpTo(S, n) == UNION {[1..k -> S] : k \in 0..n}

\* run_fetch extends `combined` manager by manager: the rows of one manager
\* are contiguous; managers are named in order of first appearance
Grouped(s) ==
    /\ s # <<>> => s[1].manager = Managers[1]
    /\ \A i \in 1..(Len(s) - 1) :
          LET a == MgrIdx(s[i].manager)
              b == MgrIdx(s[i + 1].manager)
          IN  b = a \/ b = a + 1

WeightRows ==
    {Row(Managers[i], ins, 1000, p, NULL) :
        i \in DOMAIN Managers, ins \in Instruments, p \in Pcts}

OverlapRows ==
    {Row(m, ins, pos[1], pos[2], pos[3]) :
        m \in {"A", "B"}, ins \in {TickCorp, OtherInc, AlphaFund},
        pos \in {<<100, 300, NULL>>, <<200, 400, "Technology">>}}

DiffRows ==
    {Row(m, ins, 1000, p, NULL) :
        m \in {"A", "B"}, ins \in {TickCorp, AlphaFund}, p \in {200, 300}}

\* one manager's snapshot with up to two holdings whose ticker is unresolved
UnknownRows ==
    {Row("A", ins, 1000, p, NULL) :
        ins \in {TickCorp, AlphaFund, BetaFund}, p \in {200, 300}}

\* one manager's positions at 2.0, 2.3, 2.5 and 3.0 percent
ChangeRows ==
    {Row("A", ins, v, p, NULL) :
        ins \in {TickCorp, AlphaFund}, v \in {1000}, p \in {200, 230, 250, 300}}

\* holdings of managers A and B with the enrichment columns attached by
\* run_fetch: each manager writes the issuer's name in its own way
TickCorporation == [ticker |-> "TICK", name |-> "Tick Corporation"]
StatInstruments(m) ==
    {IF m = "A" THEN TickCorp ELSE TickCorporation, OtherInc, AlphaFund}

StatProfiles ==
    {[forward_pe |-> Some(10), forward_eps_growth |-> Some(120),
      forward_revenue_growth |-> Some(60), sector |-> "Technology",
      qtd_return_pct |-> Some(10),
      monthly_returns |-> <<[month |-> "Oct", return_pct |-> Some(2)]>>],
     [forward_pe |-> Some(20), forward_eps_growth |-> Some(-80),
      forward_revenue_growth |-> NoNum, sector |-> "Energy",
      qtd_return_pct |-> Some(-4),
      monthly_returns |-> <<[month |-> "Oct", return_pct |-> Some(-1)],
                            [month |-> "Nov", return_pct |-> NoNum]>>],
     [forward_pe |-> NoNum, forward_eps_growth |-> Some(10),
      forward_revenue_growth |-> Some(-70), sector |-> NULL,
      qtd_return_pct |-> NoNum, monthly_returns |-> <<>>],
     [forward_pe |-> Some(-5), forward_eps_growth |-> NoNum,
      forward_revenue_growth |-> Some(20), sector |-> "Technology",
      qtd_return_pct |-> Some(3), monthly_returns |-> <<>>]}

StatRow(m, ins, prof) ==
    [forward_pe |-> prof.forward_pe,
     forward_eps_growth |-> prof.forward_eps_growth,
     forward_revenue_growth |-> prof.forward_revenue_growth,
     qtd_return_pct |-> prof.qtd_return_pct,
     monthly_returns |-> prof.monthly_returns]
        @@ Row(m, ins, 1000, 5000, prof.sector)

StatRows ==
    {StatRow(m, ins, prof) :
        m \in {"A", "B"}, ins \in UNION {StatInstruments(x) : x \in {"A", "B"}},
        prof \in StatProfiles}

\* the rows of the universe a manager can have filed
Filed(r) == [ticker |-> r.ticker, name |-> r.name] \in StatInstruments(r.manager)

StatWeights ==
    {[none |-> TRUE, map |-> NoMap],
     [none |-> FALSE, map |-> [m \in {"A", "B"} |-> IF m = "A" THEN 70 ELSE 30]],
     [none |-> FALSE, map |-> [m \in {"A", "B"} |-> IF m = "A" THEN 150 ELSE -50]]}

\* top_n as the callers pass it: a positive count
TopNs == {1, 2}

NoStats ==
    /\ top_n = 0
    /\ summary_stats = NoMapStr
    /\ valuation = NoMapStr
    /\ table_data = NoTable
    /\ breakdown = NoMapStr
    /\ error = FALSE

NoOutputs ==
    /\ norm_input = [fn |-> "none", name |-> NULL]
    /\ norm_out = <<>>
    /\ NoStats
    /\ called = "none"
    /\ mgr_wt = NoMap
    /\ total_wt = [num |-> 0, den |-> 1]
    /\ weighted = <<>>
    /\ by_ticker = <<>>
    /\ manager_tables = NoMap
    /\ overlap = <<>>
    /\ diff = NoMap

InitWeights ==
    /\ all_rows \in {s \in SeqsUpTo(WeightRows, MaxRows) : Grouped(s)}
    /\ previous_rows = <<>>
    /\ manager_weights \in WeightChoices
    /\ NoOutputs
    /\ NoEnrichment
    /\ NoRun

InitOverlap ==
    /\ all_rows \in SeqsUpTo(OverlapRows, MaxRows)
    /\ previous_rows = <<>>
    /\ manager_weights = [none |-> TRUE, map |-> NoMap]
    /\ NoOutputs
    /\ NoEnrichment
    /\ NoRun

InitDiff ==
    /\ all_rows \in SeqsUpTo(DiffRows, MaxDiffRows)
    /\ previous_rows \in SeqsUpTo(DiffRows, MaxDiffRows)
    /\ manager_weights = [none |-> TRUE, map |-> NoMap]
    /\ NoOutputs
    /\ NoEnrichment
    /\ NoRun

ApplyManagerWeights ==
    /\ called = "none"
    /\ error' = ZeroDivision(ApplyWeightsDivisions(all_rows, manager_weights))
    /\ IF error'
       THEN UNCHANGED <<all_rows, mgr_wt, total_wt, weighted>>
       ELSE LET res == apply_manager_weights(all_rows, manager_weights)
            IN  /\ mgr_wt' = res.mgr_wt
                /\ total_wt' = res.total_wt
                /\ weighted' = res.weighted
                /\ all_rows' = res.input
    /\ called' = "apply_manager_weights"
    /\ UNCHANGED <<previous_rows, manager_weights, by_ticker,
                   manager_tables, overlap, diff>>
    /\ UNCHANGED <<appVars, cacheVars, batchVars, norm_input, norm_out, top_n,
                   summary_stats, valuation, table_data, breakdown>>

\* rows of one manager, in input order
RowsOf(rows, m) == SelectSeq(rows, LAMBDA r : r.manager = m)

ComputePortfolioTableData ==
    /\ called = "none"
    /\ error' = ZeroDivision(WeightedCallDivisions(all_rows, manager_weights))
    /\ \E n \in TopNs :
          /\ top_n' = n
          /\ IF error'
             THEN UNCHANGED <<all_rows, mgr_wt, total_wt, weighted, by_ticker,
                              manager_tables, table_data>>
             ELSE IF all_rows = <<>>
             THEN /\ table_data' = NoTable
                  /\ UNCHANGED <<all_rows, mgr_wt, total_wt, weighted,
                                 by_ticker, manager_tables>>
             ELSE LET res == apply_manager_weights(all_rows, manager_weights)
                  IN  /\ mgr_wt' = res.mgr_wt
                      /\ total_wt' = res.total_wt
                      /\ weighted' = res.weighted
                      /\ all_rows' = res.input
                      /\ by_ticker' = AllStocks(res.weighted, TRUE)
                      /\ table_data' = BuildTable(res.weighted, TRUE, n)
                      /\ manager_tables' =
                            [m \in ManagersOf(all_rows) |->
                                AllStocks(RowsOf(all_rows, m), FALSE)]
    /\ called' = "compute_portfolio_table_data"
    /\ UNCHANGED <<previous_rows, manager_weights, overlap, diff>>
    /\ UNCHANGED <<appVars, cacheVars, batchVars, norm_input, norm_out, summary_stats,
                   valuation, breakdown>>

ComputeOverlap ==
    /\ called = "none"
    /\ error' = ZeroDivision(OverlapDivisions(all_rows))
    /\ IF error' THEN UNCHANGED overlap
       ELSE overlap' = compute_overlap(all_rows)
    /\ called' = "compute_overlap"
    /\ UNCHANGED <<all_rows, previous_rows, manager_weights, mgr_wt, total_wt,
                   weighted, by_ticker, manager_tables, diff>>
    /\ UNCHANGED <<appVars, cacheVars, batchVars, norm_input, norm_out, top_n,
                   summary_stats, valuation, table_data, breakdown>>

ComputeQoqDiff ==
    /\ called = "none"
    /\ diff' = compute_qoq_diff(all_rows, previous_rows)
    /\ error' = FALSE
    /\ called' = "compute_qoq_diff"
    /\ UNCHANGED <<all_rows, previous_rows, manager_weights, mgr_wt, total_wt,
                   weighted, by_ticker, manager_tables, overlap>>
    /\ UNCHANGED <<appVars, cacheVars, batchVars, norm_input, norm_out, top_n,
                   summary_stats, valuation, table_data, breakdown>>

NextWeights == ApplyManagerWeights \/ ComputePortfolioTableData
SpecWeights == InitWeights /\ [][NextWeights]_vars

NextOverlap == ComputeOverlap
SpecOverlap == InitOverlap /\ [][NextOverlap]_vars

NextDiff == ComputeQoqDiff
SpecDiff == InitDiff /\ [][NextDiff]_vars

\* compute_qoq_diff on snapshots of one manager with unresolved tickers
InitUnknown ==
    /\ all_rows \in SeqsUpTo(UnknownRows, MaxDiffRows)
    /\ previous_rows \in SeqsUpTo(UnknownRows, MaxDiffRows)
    /\ manager_weights = [none |-> TRUE, map |-> NoMap]
    /\ NoOutputs
    /\ NoEnrichment
    /\ NoRun

SpecUnknown == InitUnknown /\ [][NextDiff]_vars

\* two snapshots of one manager whose weights move by 0, 0.2, 0.3, 0.5,
\* 0.7 or 1.0 percent
InitChange ==
    /\ all_rows \in SeqsUpTo(ChangeRows, MaxDiffRows)
    /\ previous_rows \in SeqsUpTo(ChangeRows, MaxDiffRows)
    /\ manager_weights = [none |-> TRUE, map |-> NoMap]
    /\ NoOutputs
    /\ NoEnrichment
    /\ NoRun

NextChange == ComputeQoqDiff
SpecChange == InitChange /\ [][NextChange]_vars

InitNormalize ==
    /\ all_rows = <<>>
    /\ previous_rows = <<>>
    /\ manager_weights = [none |-> TRUE, map |-> NoMap]
    /\ called = "none"
    /\ mgr_wt = NoMap
    /\ total_wt = [num |-> 0, den |-> 1]
    /\ weighted = <<>>
    /\ by_ticker = <<>>
    /\ manager_tables = NoMap
    /\ overlap = <<>>
    /\ diff = NoMap
    /\ NoEnrichment
    /\ NoRun
    /\ norm_input \in [fn : {"sector", "country"}, name : NormLabels]
    /\ norm_out = <<>>
    /\ NoStats

NextNormalize == Normalize \/ NormalizeAgain
SpecNormalize == InitNormalize /\ [][NextNormalize]_vars

InitStats ==
    /\ all_rows \in {s \in SeqsUpTo({r \in StatRows : Filed(r)}, MaxStatRows) :
                        Grouped(s)}
    /\ previous_rows = <<>>
    /\ manager_weights \in StatWeights
    /\ NoOutputs
    /\ NoEnrichment
    /\ NoRun

ComputeSummaryStats ==
    /\ called = "none"
    /\ error' = ZeroDivision(WeightedCallDivisions(all_rows, manager_weights))
    /\ IF error' THEN UNCHANGED <<summary_stats, all_rows, by_ticker>>
       ELSE /\ summary_stats' = compute_summary_stats(all_rows, manager_weights)
            /\ by_ticker' = Deduplicated("summary", all_rows, manager_weights)
            /\ all_rows' = InputAfter(all_rows, manager_weights)
    /\ called' = "compute_summary_stats"
    /\ UNCHANGED <<previous_rows, manager_weights, mgr_wt, total_wt,
                   weighted, manager_tables, overlap, diff>>
    /\ UNCHANGED <<appVars, cacheVars, batchVars, norm_input, norm_out, top_n, valuation,
                   table_data, breakdown>>

ComputeTopStocksValuation ==
    /\ called = "none"
    /\ error' = ZeroDivision(WeightedCallDivisions(all_rows, manager_weights))
    /\ \E n \in TopNs :
          /\ top_n' = n
          /\ IF error' THEN UNCHANGED <<valuation, all_rows, by_ticker>>
             ELSE /\ valuation' =
                        compute_top_stocks_valuation(all_rows, manager_weights, n)
                  /\ by_ticker' = Deduplicated("valuation", all_rows, manager_weights)
                  /\ all_rows' = InputAfter(all_rows, manager_weights)
    /\ called' = "compute_top_stocks_valuation"
    /\ UNCHANGED <<previous_rows, manager_weights, mgr_wt, total_wt,
                   weighted, manager_tables, overlap, diff>>
    /\ UNCHANGED <<appVars, cacheVars, batchVars, norm_input, norm_out, summary_stats,
                   table_data, breakdown>>

\* holdings.write_weighted_xlsx up to sorted_stocks (the workbook is not
\* modelled)
WriteWeightedXlsx ==
    /\ called = "none"
    /\ error' = ZeroDivision(ApplyWeightsDivisions(all_rows, manager_weights))
    /\ IF error' THEN UNCHANGED <<all_rows, by_ticker>>
       ELSE LET res == apply_manager_weights(all_rows, manager_weights)
                agg == XlsxByTicker(res.weighted, <<>>)
            IN  /\ by_ticker' =
                      SortBy(agg, [i \in DOMAIN agg |-> <<-agg[i].combined_weight>>])
                /\ all_rows' = res.input
    /\ called' = "write_weighted_xlsx"
    /\ UNCHANGED <<previous_rows, manager_weights, mgr_wt, total_wt,
                   weighted, manager_tables, overlap, diff>>
    /\ UNCHANGED <<appVars, cacheVars, batchVars, norm_input, norm_out, top_n,
                   summary_stats, valuation, table_data, breakdown>>

\* the four functions of the sector and geography views
BreakdownCall(fn, result, divisions) ==
    /\ called = "none"
    /\ error' = ZeroDivision(divisions)
    /\ IF error' THEN UNCHANGED breakdown ELSE breakdown' = result
    /\ all_rows' = (IF error' \/ fn \notin {"compute_sector_treemap", "compute_geo_treemap"}
                    THEN all_rows ELSE InputAfter(all_rows, manager_weights))
    /\ called' = fn
    /\ UNCHANGED <<previous_rows, manager_weights, mgr_wt, total_wt,
                   weighted, by_ticker, manager_tables, overlap, diff>>
    /\ UNCHANGED <<appVars, cacheVars, batchVars, norm_input, norm_out, top_n,
                   summary_stats, valuation, table_data>>

ComputeSectorBreakdown ==
    BreakdownCall("compute_sector_breakdown", compute_sector_breakdown(all_rows),
                  BreakdownDivisions(all_rows, "sector")
                      \cup BreakdownDivisions(all_rows, "industry"))

ComputeGeoBreakdown ==
    BreakdownCall("compute_geo_breakdown", compute_geo_breakdown(all_rows),
                  BreakdownDivisions(all_rows, "country"))

ComputeSectorTreemap ==
    BreakdownCall("compute_sector_treemap",
                  compute_sector_treemap(all_rows, manager_weights),
                  WeightedCallDivisions(all_rows, manager_weights))

ComputeGeoTreemap ==
    BreakdownCall("compute_geo_treemap",
                  compute_geo_treemap(all_rows, manager_weights),
                  WeightedCallDivisions(all_rows, manager_weights))

NextStats ==
    \/ ApplyManagerWeights
    \/ ComputeSummaryStats
    \/ ComputeTopStocksValuation
    \/ ComputePortfolioTableData
    \/ WriteWeightedXlsx
SpecStats == InitStats /\ [][NextStats]_vars

\* ------------------------------------------------------------------------
\* Enrichment: inputs and specifications
\* ------------------------------------------------------------------------
\* no analytics call takes part in the enrichment specifications
NoAnalytics ==
    /\ all_rows = <<>>
    /\ previous_rows = <<>>
    /\ manager_weights = [none |-> TRUE, map |-> NoMap]
    /\ NoOutputs

\* the web applications: run requests, /api/stop and the worker threads
InitRun ==
    /\ app \in {"13F", "bentley"}
    /\ run_lock = FALSE
    /\ abort_flag = FALSE
    /\ progress_queues = <<>>
    /\ worker = <<>>
    /\ handler = NoHandler
    /\ response = NoResponse
    /\ last_results = 0
    /\ diff_results = 0
    /\ all_rows = <<>>
    /\ previous_rows = <<>>
    /\ manager_weights = [none |-> TRUE, map |-> NoMap]
    /\ NoOutputs
    /\ NoEnrichment

NextRun ==
    \/ \E kind \in {"api_run", "api_run_diff", "start_run"} : Request(kind)
    \/ ApiRunClear
    \/ \E body \in DiffBodies : ApiRunDiffBody(body)
    \/ \E ok \in BOOLEAN, n \in 0..MaxManagers : LoadAndStart(ok, n)
    \/ ApiStop
    \/ \E w \in DOMAIN worker, ok \in BOOLEAN : RunFetchBegin(w, ok)
    \/ \E w \in DOMAIN worker : RunFetchCheck(w)
    \/ \E w \in DOMAIN worker, fetched \in BOOLEAN : RunFetchManager(w, fetched)
    \/ \E w \in DOMAIN worker, ok \in BOOLEAN : RunFetchEnrich(w, ok)
    \/ \E w \in DOMAIN worker, ok \in BOOLEAN : RunFetchFiles(w, ok)
    \/ \E w \in DOMAIN worker : RunFetchComplete(w)
    \/ \E w \in DOMAIN worker, saved \in BOOLEAN : ApiRunSave(w, saved)
    \/ \E w \in DOMAIN worker, ok \in BOOLEAN : DiffBegin(w, ok)
    \/ \E w \in DOMAIN worker : DiffManager(w)
    \/ \E w \in DOMAIN worker : DiffComplete(w)
    \/ \E w \in DOMAIN worker, ok \in BOOLEAN : BentleyRun(w, ok)

SpecRun == InitRun /\ [][NextRun]_vars

InitCache ==
    /\ NoAnalytics
    /\ EnrichmentIdle
    /\ NoRun
    /\ NoBatch
    /\ envs = {AllOk, AllRaise}
    /\ ops_left = MaxOps

\* one caller fetching one ticker after the other, the provider behaving in
\* one of the ways of Environments
InitFetch ==
    /\ NoAnalytics
    /\ EnrichmentIdle
    /\ NoRun
    /\ NoBatch
    /\ \E e \in Environments : envs = {e}
    /\ ops_left = MaxOps

NextFetch == Call(1) \/ FetchStep(1)
SpecFetch == InitFetch /\ [][NextFetch]_vars

\* one batch over a list of at most MaxTickers tickers, with a pool of up to
\* NThreads workers, with or without a progress callback
InitBatch ==
    /\ NoAnalytics
    /\ EnrichmentIdle
    /\ NoRun
    /\ tickers \in UNION {[1..n -> BatchTickers] : n \in 0..MaxTickers}
    /\ quarter_end = "2025-09-30"
    /\ max_workers \in 1..NThreads
    /\ progress_callback \in BOOLEAN
    /\ main_pc = "called"
    /\ envs = {AllOk, AllRaise}
    /\ ops_left = 0

NextBatch ==
    \/ BatchStart
    \/ Submit
    \/ \E t \in Threads : WorkerTake(t) \/ FetchStep(t) \/ WorkerFault(t)
    \/ \E i \in 1..MaxTickers : Collect(i)
    \/ BatchReturn
SpecBatch == InitBatch /\ [][NextBatch]_vars

\* the batch when every step that can be taken is eventually taken: the
\* caller and the pool threads keep running, a call of fetch_ticker_data
\* returns or raises, a released lock is acquired by a waiting thread
BatchFairness ==
    /\ WF_vars(BatchStart) /\ WF_vars(Submit) /\ WF_vars(BatchReturn)
    /\ \A t \in Threads : WF_vars(WorkerTake(t)) /\ WF_vars(FetchStep(t))
    /\ \A i \in 1..MaxTickers : WF_vars(Collect(i))

\* the batch called without progress callback
InitBatchQuiet == InitBatch /\ ~progress_callback
SpecBatchFair == InitBatchQuiet /\ [][NextBatch]_vars /\ BatchFairness

NextCache == (\E t \in Threads : Call(t) \/ FetchStep(t)) \/ Reset
SpecCache == InitCache /\ [][NextCache]_vars

\* ------------------------------------------------------------------------
\* Every aggregation function and the batch fetch, on no input and on one
\* record or one ticker
\* ------------------------------------------------------------------------
GeoRows ==
    {[country |-> pos[4]] @@ Row(m, ins, pos[1], pos[2], pos[3]) :
        m \in {"A", "B"}, ins \in {TickCorp, OtherInc, AlphaFund},
        pos \in {<<100, 300, NULL, NULL>>,
                 <<200, 400, "Technology", "United States">>}}

InitEmptyInput ==
    /\ all_rows \in {<<>>} \cup {<<r>> : r \in GeoRows}
    /\ previous_rows \in {<<>>, <<Row("A", TickCorp, 100, 300, NULL)>>}
    /\ manager_weights \in WeightChoices
    /\ NoOutputs
    /\ EnrichmentIdle
    /\ NoRun
    /\ tickers \in {<<>>, <<"AAA">>}
    /\ quarter_end = "2025-09-30"
    /\ max_workers = 1
    /\ progress_callback = TRUE
    /\ main_pc = "called"
    /\ envs = {AllOk}
    /\ ops_left = 0

NextEmptyInput ==
    \/ ApplyManagerWeights
    \/ ComputeSummaryStats
    \/ ComputeTopStocksValuation
    \/ ComputeOverlap
    \/ ComputeSectorBreakdown
    \/ ComputeGeoBreakdown
    \/ ComputeSectorTreemap
    \/ ComputeGeoTreemap
    \/ ComputePortfolioTableData
    \/ ComputeQoqDiff
    \/ NextBatch
SpecEmptyInput == InitEmptyInput /\ [][NextEmptyInput]_vars

\* holdings under yfinance and GICS labels of one sector and one country,
\* unlabelled holdings and holdings of value 0
BreakdownRows ==
    {[country |-> lab[2]] @@ Row(m, TickCorp, v, 5000, lab[1]) :
        m \in {"A", "B"}, v \in {0, 100, 300},
        lab \in {<<NULL, NULL>>, <<"Technology", "South Korea">>,
                 <<"Information Technology", "Korea (South)">>,
                 <<"Energy", "United States">>}}

InitBreakdown ==
    /\ all_rows \in SeqsUpTo(BreakdownRows, MaxStatRows)
    /\ previous_rows = <<>>
    /\ manager_weights \in StatWeights
    /\ NoOutputs
    /\ NoEnrichment
    /\ NoRun

NextBreakdown == ComputeSectorBreakdown \/ ComputeGeoBreakdown
SpecBreakdown == InitBreakdown /\ [][NextBreakdown]_vars

\* the two treemaps on the holdings of managers A and B
InitTreemap ==
    /\ all_rows \in SeqsUpTo(GeoRows, MaxStatRows)
    /\ previous_rows = <<>>
    /\ manager_weights \in StatWeights
    /\ NoOutputs
    /\ NoEnrichment
    /\ NoRun

NextTreemap == ComputeSectorTreemap \/ ComputeGeoTreemap
SpecTreemap == InitTreemap /\ [][NextTreemap]_vars

\* ========================================================================
\* Properties
\* ========================================================================
PctSumOf(rows, m) ==
    SumSeq([i \in DOMAIN RowsOf(rows, m) |-> RowsOf(rows, m)[i].pct_of_portfolio])

EachManagerSumsTo100(rows) ==
    \A m \in ManagersOf(rows) : PctSumOf(rows, m) = 10000

SumCombined(w) == SumSeq([i \in DOMAIN w |-> w[i].combined_weight])

\* the weight the caller gave a manager, 0 when the map has no entry
GivenOrZero(m) ==
    IF m \in DOMAIN manager_weights.map THEN manager_weights.map[m] ELSE 0

NoPositiveEntry ==
    \/ manager_weights.none
    \/ \A m \in DOMAIN manager_weights.map : manager_weights.map[m] <= 0

PresentWeightSum ==
    SumOver([m \in ManagersOf(all_rows) |-> GivenOrZero(m)], ManagersOf(all_rows))

\* C1 as stated: whenever every manager's pct_of_portfolio values sum to 100,
\* the combined weights returned by _apply_manager_weights sum to 100 +- 0.01,
\* whatever manager_weights is.
C1_AnyWeightsSumTo100 ==
    (called = "apply_manager_weights" /\ all_rows # <<>>
        /\ EachManagerSumsTo100(all_rows))
        => Abs(SumCombined(weighted) - 1000000) <= 100

\* C1 amended: for a non-empty input in which every manager's pct values sum
\* to 100, the combined weights sum to 100 within 0.00005 per row when the
\* map is absent, empty, has no positive entry, or gives the managers present
\* a non-zero total; otherwise (total replaced by 1) they sum to 0.
C1_SumTo100 ==
    (called = "apply_manager_weights" /\ all_rows # <<>>
        /\ EachManagerSumsTo100(all_rows))
        => IF NoPositiveEntry \/ PresentWeightSum # 0
           THEN 2 * Abs(SumCombined(weighted) - 1000000) <= Len(all_rows)
           ELSE SumCombined(weighted) = 0

\* three equally weighted managers at 100 % each: 3 x 33.3333 = 99.9999
C1_Witness ==
    /\ called = "apply_manager_weights"
    /\ EachManagerSumsTo100(all_rows)
    /\ Cardinality(ManagersOf(all_rows)) = 3
    /\ SumCombined(weighted) = 999999

\* exact share of row i as a fraction num / den with a common denominator
RefDen ==
    IF NoPositiveEntry THEN Cardinality(ManagersOf(all_rows))
    ELSE IF PresentWeightSum = 0 THEN 1 ELSE PresentWeightSum

RefNum(i) ==
    IF NoPositiveEntry THEN all_rows[i].pct_of_portfolio * 100
    ELSE all_rows[i].pct_of_portfolio * 100 * GivenOrZero(all_rows[i].manager)

RowsHolding(k) == {i \in DOMAIN all_rows : TickerKey(all_rows[i]) = k}

TableEntries(k) == {i \in DOMAIN by_ticker : by_ticker[i].key = k}

HeldBy(k, holders) ==
    /\ Cardinality(RowsHolding(k)) = Cardinality(DOMAIN holders)
    /\ \A m \in DOMAIN holders : \E i \in RowsHolding(k) :
          all_rows[i].manager = m /\ all_rows[i].pct_of_portfolio = holders[m]

\* C2: the combined weight of a ticker in the portfolio table is the sum over
\* the records holding it of pct/100 x manager_weight/total_weight x 100
\* (each term rounded to 4 decimals); A alone at 10 % among two equally
\* weighted managers gives 5.0; weights 70/30 with A at 40 % and B at 20 %
\* give 34.
C2_CombinedWeightOfTicker ==
    (called = "compute_portfolio_table_data" /\ all_rows # <<>>) =>
        /\ \A i \in DOMAIN all_rows :
              Cardinality(TableEntries(TickerKey(all_rows[i]))) = 1
        /\ \A j \in DOMAIN by_ticker :
              LET held == RowsHolding(by_ticker[j].key)
              IN  /\ held # {}
                  /\ 2 * Abs(by_ticker[j].pct * RefDen
                             - SumOver([i \in held |-> RefNum(i)], held))
                        <= Cardinality(held) * Abs(RefDen)
        /\ (NoPositiveEntry /\ ManagersOf(all_rows) = {"A", "B"}
              /\ HeldBy("TICK", [m \in {"A"} |-> 1000]))
             => \E j \in DOMAIN by_ticker :
                    by_ticker[j].key = "TICK" /\ by_ticker[j].pct = 50000
        /\ (manager_weights.map = [m \in {"A", "B"} |-> IF m = "A" THEN 70 ELSE 30]
              /\ HeldBy("TICK", [m \in {"A", "B"} |-> IF m = "A" THEN 4000 ELSE 2000]))
             => \E j \in DOMAIN by_ticker :
                    by_ticker[j].key = "TICK" /\ by_ticker[j].pct = 340000

C2_Witness ==
    /\ called = "compute_portfolio_table_data"
    /\ manager_weights.map = [m \in {"A", "B"} |-> IF m = "A" THEN 70 ELSE 30]
    /\ HeldBy("TICK", [m \in {"A", "B"} |-> IF m = "A" THEN 4000 ELSE 2000])
    /\ \E j \in DOMAIN by_ticker :
          by_ticker[j].key = "TICK" /\ by_ticker[j].pct = 340000

RatEq(a, b) == a.num * b.den = b.num * a.den

\* C3: absent or all-non-positive weights give each of the N managers 100/N;
\* otherwise each manager gets its given weight, 0 when missing; total_weight
\* is the sum of the chosen weights, 1 when that sum is 0; nothing is divided
\* by zero.
C3_WeightChoice ==
    called = "apply_manager_weights" =>
        LET managers == ManagersOf(all_rows)
            n == Cardinality(managers)
            chosenSum == IF NoPositiveEntry
                         THEN (IF n = 0 THEN 0 ELSE 100)
                         ELSE PresentWeightSum
        IN  /\ DOMAIN mgr_wt = managers
            /\ \A m \in managers :
                  /\ mgr_wt[m].den # 0
                  /\ IF NoPositiveEntry
                     THEN RatEq(mgr_wt[m], [num |-> 100, den |-> n])
                     ELSE RatEq(mgr_wt[m], [num |-> GivenOrZero(m), den |-> 1])
            /\ total_wt.num # 0 /\ total_wt.den # 0
            /\ RatEq(total_wt, [num |-> IF chosenSum = 0 THEN 1 ELSE chosenSum,
                                den |-> 1])

\* an explicit map whose weights for the managers present sum to 0
C3_Witness ==
    /\ called = "apply_manager_weights"
    /\ all_rows # <<>>
    /\ ~NoPositiveEntry
    /\ \E m \in ManagersOf(all_rows) : m \notin DOMAIN manager_weights.map
    /\ PresentWeightSum = 0
    /\ RatEq(total_wt, [num |-> 1, den |-> 1])

ManagersHolding(tk) ==
    {all_rows[i].manager : i \in {j \in DOMAIN all_rows : all_rows[j].ticker = tk}}

\* C9 as stated: compute_overlap emits a ticker only when at least two
\* distinct managers hold it, and every emitted entry has manager_count >= 2.
C9_OnlySharedTickers ==
    called = "compute_overlap" =>
        \A i \in DOMAIN overlap :
            /\ Cardinality(ManagersHolding(overlap[i].ticker)) >= 2
            /\ overlap[i].manager_count >= 2

KeysOf(rows, mgr) ==
    {rows[i].ticker : i \in {j \in DOMAIN rows : rows[j].manager = mgr}}

TickersIn(entries) == {entries[i].ticker : i \in DOMAIN entries}

Listed(entries, keys) ==
    TickersIn(entries) = keys /\ Len(entries) = Cardinality(keys)

\* C10: per manager of either snapshot, new_positions is exactly the keys
\* only in the current snapshot, exited_positions exactly those only in the
\* previous one, and each key in both is counted once, as changed or as
\* unchanged; a manager in one snapshot only is all-new or all-exited.
C10_DiffPartition ==
    called = "compute_qoq_diff" =>
        /\ DOMAIN diff = ManagersOf(all_rows) \cup ManagersOf(previous_rows)
        /\ \A mgr \in DOMAIN diff :
              LET curr == KeysOf(all_rows, mgr)
                  prev == KeysOf(previous_rows, mgr)
                  d == diff[mgr]
              IN  /\ Listed(d.new_positions, curr \ prev)
                  /\ Listed(d.exited_positions, prev \ curr)
                  /\ TickersIn(d.changed_positions) \subseteq (curr \cap prev)
                  /\ Len(d.changed_positions) =
                        Cardinality(TickersIn(d.changed_positions))
                  /\ d.unchanged_count >= 0
                  /\ Len(d.changed_positions) + d.unchanged_count =
                        Cardinality(curr \cap prev)
                  /\ prev = {} => (Listed(d.new_positions, curr)
                                    /\ d.exited_positions = <<>>
                                    /\ d.changed_positions = <<>>
                                    /\ d.unchanged_count = 0)
                  /\ curr = {} => (Listed(d.exited_positions, prev)
                                    /\ d.new_positions = <<>>
                                    /\ d.changed_positions = <<>>
                                    /\ d.unchanged_count = 0)

\* one manager with a new and a changed position, another only in the
\* previous snapshot
C10_Witness ==
    /\ called = "compute_qoq_diff"
    /\ \E m1, m2 \in DOMAIN diff :
          /\ m1 # m2
          /\ diff[m1].new_positions # <<>>
          /\ diff[m1].changed_positions # <<>>
          /\ KeysOf(all_rows, m2) = {}
          /\ diff[m2].exited_positions # <<>>

\* ------------------------------------------------------------------------
\* batch_fetch_financial_data
\* ------------------------------------------------------------------------
\* C4: with a progress callback, the i-th invocation is (i, N) for N tickers,
\* one invocation per completed future whether the future or an earlier
\* callback raised, and N invocations have been made when the batch returns.
C4_ProgressCounts ==
    progress_callback =>
        /\ Len(progress) = done
        /\ Len(progress) <= Len(tickers)
        /\ \A i \in DOMAIN progress :
              progress[i].done = i /\ progress[i].total = Len(tickers)
        /\ main_pc = "returned" => Len(progress) = Len(tickers)

\* a batch of two returned after a worker raised and the first callback raised
C4_Witness ==
    /\ progress_callback
    /\ main_pc = "returned"
    /\ Len(tickers) = 2
    /\ \E i \in DOMAIN futures : futures[i].exc
    /\ progress[1].raised
    /\ progress[2].done = 2

\* the futures of ticker tk
FuturesOf(tk) == {i \in DOMAIN futures : tickers[i] = tk}

\* C5: the returned map has exactly the tickers of the input list; a ticker
\* whose worker raised maps to the all-null record and every other ticker to
\* the record its own fetch returned.
C5_RaiseDoesNotAbort ==
    main_pc = "returned" =>
        /\ DOMAIN results = Range(tickers)
        /\ \A tk \in DOMAIN results :
              \E i \in FuturesOf(tk) :
                  results[tk] = IF futures[i].exc THEN EmptyResult
                                ELSE futures[i].value

\* one worker raised, the other ticker's fetch returned a populated record
C5_Witness ==
    /\ main_pc = "returned"
    /\ \E i, j \in DOMAIN futures :
          /\ futures[i].exc
          /\ results[tickers[i]] = EmptyResult
          /\ tickers[j] # tickers[i]
          /\ ~futures[j].exc
          /\ results[tickers[j]] = FetchRecord(tickers[j], AllOk)

\* ------------------------------------------------------------------------
\* fetch_ticker_data
\* ------------------------------------------------------------------------
\* the fields a provider call is the source of
PrimaryFields(c) ==
    CASE c = "history"          -> PriceFields
      [] c = "info"             -> {"forward_pe", "dividend_yield", "trailing_eps",
                                    "forward_eps", "forward_ps", "country"}
      [] c = "growth_estimates" -> {"forward_eps_growth"}
      [] c = "revenue_estimate" -> {"forward_revenue_growth"}
      [] c = "earnings_dates"   -> EpsFields
      [] c = "qtd_history"      -> QtdFields

\* thread t made the provider calls and returned
Fetched(t) == thr[t].pc = "done" /\ thr[t].made_calls

\* C6: no exception leaves fetch_ticker_data, and in the record it returns
\* every field whose provider call succeeded is populated whatever the other
\* calls did, while no field carries a value of a call that failed.
C6_FailureIsolation ==
    \A t \in Threads :
        Fetched(t) =>
            /\ ~thr[t].raised
            /\ \A c \in ProviderCalls :
                  LET out == thr[t].env
                  IN  /\ (out.prologue = "ok" /\ out[c] = "ok" /\ Attempted(out, c))
                          => \A f \in PrimaryFields(c) : thr[t].result[f] # NULL
                      /\ out[c] \in {"raise", "empty"}
                          => \A f \in ResultFields : thr[t].result[f] # c

\* the info bundle alone failed: its fields are null, those of the five
\* other calls are populated
C6_Witness ==
    \E t \in Threads :
        /\ Fetched(t)
        /\ thr[t].env = [AllOk EXCEPT !.info = "raise"]
        /\ thr[t].result.forward_pe = NULL
        /\ thr[t].result.forward_eps_growth = "growth_estimates"
        /\ thr[t].result.filing_reported_eps = "earnings_dates"
        /\ thr[t].result.qtd_return_pct = "qtd_history"
        /\ thr[t].result.prior_price_qtr_end = "history"

\* ------------------------------------------------------------------------
\* Cache
\* ------------------------------------------------------------------------
Busy(t) == thr[t].pc \notin {"idle", "done"}

\* threads t and u both computed the record of the same key, and they are the
\* only ones that stored it since the cache was last cleared
BothComputed(t, u) ==
    /\ t # u
    /\ thr[t].pc = "done" /\ thr[u].pc = "done"
    /\ KeyOf(t) = KeyOf(u)
    /\ thr[t].made_calls /\ thr[u].made_calls
    /\ writers[KeyOf(t)] = {t, u}

\* every position that reads or writes _cache is held with the lock
UnderMutex ==
    /\ \A t \in Threads : thr[t].pc \in {"check", "store"} => cache_lock = t
    /\ reset_pc = "clear" => cache_lock = Resetter

OneOfTheTwo ==
    \A t, u \in Threads :
        BothComputed(t, u) =>
            /\ KeyOf(t) \in DOMAIN cache
            /\ cache[KeyOf(t)] \in {thr[t].result, thr[u].result}

\* a step that changes the cache is taken by the lock holder; a fetch changes
\* the entry of its own key only
CacheFrame ==
    cache' # cache =>
        /\ cache_lock # Free
        /\ cache_lock' = Free
        /\ cache_lock \in Threads =>
              \A k \in DOMAIN cache :
                  k # KeyOf(cache_lock) => k \in DOMAIN cache' /\ cache'[k] = cache[k]

\* C7: the cache is read and written only by the holder of the mutex; when two
\* fetches of the same uncached key both computed and returned, the cache
\* holds for that key the record one of the two returned, and a fetch's store
\* leaves the entries of the other keys as they were.
C7_NoSingleFlight == [](UnderMutex /\ OneOfTheTwo) /\ [][CacheFrame]_vars

\* two fetches of one key both called the provider and returned different
\* records, while another key is cached
C7_Witness ==
    \E t, u \in Threads :
        /\ BothComputed(t, u)
        /\ thr[t].result # thr[u].result
        /\ cache[KeyOf(t)] = thr[u].result

\* a fetch that started after a fetch of its key returned, with no
\* clear_cache call since, never calls the provider
HitsNeverCompute ==
    \A t \in Threads :
        thr[t].expect_hit =>
            /\ thr[t].pc \in {"lock_check", "check", "done"}
            /\ ~thr[t].made_calls
            /\ ~thr[t].raised
            /\ KeyOf(t) \in DOMAIN cache

\* ... and what it returns is the record the cache held when it looked
HitsReturnCached ==
    \A t \in Threads :
        (thr[t].pc = "check" /\ thr[t].expect_hit /\ thr'[t].pc # "check") =>
            /\ thr'[t].pc = "done"
            /\ thr'[t].result = cache[KeyOf(t)]

\* the first fetch started after clear_cache returned calls the provider
NextFetchComputes ==
    \A t \in Threads :
        (thr[t].first_after_clear /\ thr[t].pc = "done") => thr[t].made_calls

\* ... unless another fetch stored a record under its key after the clear
NextFetchComputesUnlessStored ==
    \A t \in Threads :
        (thr[t].first_after_clear /\ thr[t].pc = "done") =>
            thr[t].made_calls \/ writers[KeyOf(t)] # {}

\* when clear_cache returns the cache is empty; until the next clear it holds
\* only what fetches stored afterwards, and until the next fetch starts only
\* what the fetches in progress during the clear stored
ClearEmpties ==
    /\ \A k \in DOMAIN cache : writers[k] # {}
    /\ after_clear => DOMAIN cache \subseteq late_keys

\* C8 as stated: once a fetch of a key has returned and clear_cache has not
\* been called since, every fetch of that key started afterwards returns the
\* cached record without an external call; after clear_cache returns, the
\* next fetch of any key makes external calls again.
C8_CachedUntilCleared == HitsNeverCompute /\ NextFetchComputes

\* C8 amended: the first part as stated; clear_cache leaves the cache empty,
\* and the next fetch makes external calls again unless another fetch, one in
\* progress when the cache was cleared or one running beside it, has stored a
\* record under its key since the clear.
C8_CachedUntilClearedOrStored ==
    [](HitsNeverCompute /\ NextFetchComputesUnlessStored /\ ClearEmpties)
        /\ [][HitsReturnCached]_vars

\* the first fetch after a clear_cache is served the record that a fetch
\* begun before the clear stored after it
C8_Witness ==
    \E t \in Threads :
        /\ thr[t].first_after_clear /\ thr[t].expect_hit
        /\ thr[t].pc = "done" /\ ~thr[t].made_calls
        /\ KeyOf(t) \in late_keys
        /\ thr[t].result = cache[KeyOf(t)]


\* ------------------------------------------------------------------------
\* compute_qoq_diff: the change threshold
\* ------------------------------------------------------------------------
\* the record the index of a snapshot holds for (mgr, key): the last one
LastOf(rows, mgr, key) ==
    LET at == {i \in DOMAIN rows : rows[i].manager = mgr /\ rows[i].ticker = key}
    IN  rows[CHOOSE i \in at : \A j \in at : j <= i]

EntriesFor(entries, key) == {i \in DOMAIN entries : entries[i].ticker = key}

\* C11: a position in both snapshots of a manager has change_pct = curr pct
\* - prev pct (2 decimals) and is listed as changed exactly when
\* |change_pct| >= 0.5, 0.5 included; otherwise it is only counted in
\* unchanged_count. 2.0 -> 2.3 is unchanged, 2.0 -> 3.0 is changed by 1.0.
C11_ChangeThreshold ==
    called = "compute_qoq_diff" =>
        \A mgr \in DOMAIN diff :
            LET common == KeysOf(all_rows, mgr) \cap KeysOf(previous_rows, mgr)
                d == diff[mgr]
                delta(k) == LastOf(all_rows, mgr, k).pct_of_portfolio
                              - LastOf(previous_rows, mgr, k).pct_of_portfolio
            IN  /\ \A k \in common :
                      LET es == EntriesFor(d.changed_positions, k)
                      IN  IF Abs(delta(k)) >= 50
                          THEN /\ Cardinality(es) = 1
                               /\ \A i \in es :
                                     /\ d.changed_positions[i].change_pct = delta(k)
                                     /\ d.changed_positions[i].curr_pct =
                                           LastOf(all_rows, mgr, k).pct_of_portfolio
                                     /\ d.changed_positions[i].prev_pct =
                                           LastOf(previous_rows, mgr, k).pct_of_portfolio
                          ELSE es = {}
                /\ d.unchanged_count =
                      Cardinality({k \in common : Abs(delta(k)) < 50})
                /\ \A k \in common :
                      /\ (LastOf(previous_rows, mgr, k).pct_of_portfolio = 200
                          /\ LastOf(all_rows, mgr, k).pct_of_portfolio = 230)
                            => EntriesFor(d.changed_positions, k) = {}
                      /\ (LastOf(previous_rows, mgr, k).pct_of_portfolio = 200
                          /\ LastOf(all_rows, mgr, k).pct_of_portfolio = 300)
                            => \E i \in EntriesFor(d.changed_positions, k) :
                                   d.changed_positions[i].change_pct = 100

\* one position moved by exactly 0.5 and is listed, another moved by 0.3 and
\* is only counted
C11_Witness ==
    /\ called = "compute_qoq_diff"
    /\ \E mgr \in DOMAIN diff :
          /\ \E i \in DOMAIN diff[mgr].changed_positions :
                Abs(diff[mgr].changed_positions[i].change_pct) = 50
          /\ diff[mgr].unchanged_count = 1
          /\ \E k \in KeysOf(all_rows, mgr) \cap KeysOf(previous_rows, mgr) :
                /\ LastOf(previous_rows, mgr, k).pct_of_portfolio = 200
                /\ LastOf(all_rows, mgr, k).pct_of_portfolio = 230

\* ------------------------------------------------------------------------
\* normalize_sector_name / normalize_country_name
\* ------------------------------------------------------------------------
TableOf(fn) == IF fn = "sector" THEN SECTOR_NAME_MAP ELSE COUNTRY_NAME_MAP

\* C12: applying the normalisation twice gives what applying it once gives;
\* None and "" give "Unknown"; a canonical label and a label the table does
\* not know come back unchanged.
C12_NormalizeIdempotent ==
    LET name == norm_input.name
        table == TableOf(norm_input.fn)
    IN  /\ Len(norm_out) >= 1 =>
              /\ (name \in {NULL, ""} => norm_out[1] = "Unknown")
              /\ (name \notin {NULL, ""}
                    /\ (name \in Range(table) \/ name \notin DOMAIN table))
                    => norm_out[1] = name
        /\ Len(norm_out) = 2 => norm_out[2] = norm_out[1]

\* a provider name whose canonical name is itself in the table, applied twice
C12_Witness ==
    /\ norm_input = [fn |-> "sector", name |-> "Communication"]
    /\ norm_out = <<"Communication Services", "Communication Services">>

\* ------------------------------------------------------------------------
\* Portfolio statistics: what the de-duplication and the averages are held to
\* ------------------------------------------------------------------------
\* the weighted records the statistics are computed from
StatWeighted == apply_manager_weights(all_rows, manager_weights).weighted

RealTickers == {StatWeighted[i].ticker : i \in DOMAIN StatWeighted} \ {NA}

\* every grouping key: the ticker, or the name of a record without ticker
AllKeys == {TickerKey(StatWeighted[i]) : i \in DOMAIN StatWeighted}

RowsWith(tk) == {i \in DOMAIN StatWeighted : TickerKey(StatWeighted[i]) = tk}

\* sum of combined_weight over the weighted records of ticker tk
TickerWeight(tk) ==
    SumOver([i \in RowsWith(tk) |-> StatWeighted[i].combined_weight], RowsWith(tk))

\* first non-null value of numeric field f among the records of ticker tk
FirstOf(tk, f) ==
    LET having == {i \in RowsWith(tk) : StatWeighted[i][f] # NoNum}
    IN  IF having = {} THEN NoNum
        ELSE StatWeighted[CHOOSE i \in having : \A j \in having : i <= j][f]

HasPositivePE(tk) ==
    FirstOf(tk, "forward_pe") # NoNum /\ FirstOf(tk, "forward_pe")[1] > 0

\* res is sum(weight) / sum(weight / PE) over the tickers Q, rounded to two
\* decimals, and None when Q is empty
IsHarmonicOver(res, Q) ==
    LET pe == [tk \in Q |-> FirstOf(tk, "forward_pe")[1]]
        P == ProdOver(pe, Q)
        w == Reduced([tk \in Q |-> TickerWeight(tk)], Q)
        N == 100 * P * SumOver(w, Q)
        D == SumOver([tk \in Q |-> w[tk] * (P \div pe[tk])], Q)
    IN  IF Q = {} THEN res = NoNum
        ELSE D # 0 => (res # NoNum /\ 2 * Abs(res[1] * D - N) <= Abs(D))

\* the portfolio-level forward P/E the function called has returned
ReportedPE ==
    IF called = "compute_summary_stats" THEN summary_stats.weighted_forward_pe
    ELSE valuation.portfolio_avg.forward_pe

StatsReturned ==
    /\ called \in {"compute_summary_stats", "compute_top_stocks_valuation"}
    /\ all_rows # <<>>

\* C13 as stated: the portfolio-level forward P/E of both functions is the
\* weighted harmonic mean over every ticker whose forward P/E is non-null and
\* positive, and null when there is no such ticker.
C13_HarmonicOverPositivePE ==
    StatsReturned => IsHarmonicOver(ReportedPE, {tk \in RealTickers : HasPositivePE(tk)})

\* C13 amended: the portfolio-level forward P/E of both functions is the
\* weighted harmonic mean sum(weight) / sum(weight / PE), rounded to two
\* decimals, over the tickers whose combined weight is positive and whose
\* forward P/E is non-null and positive; every other ticker contributes to
\* neither sum, and the result is null when no ticker qualifies.
C13_HarmonicForwardPE ==
    StatsReturned =>
        IsHarmonicOver(ReportedPE,
            {tk \in RealTickers : TickerWeight(tk) > 0 /\ HasPositivePE(tk)})

\* two tickers of weight 50 with forward P/E 10 and 20 give 13.33
C13_Witness ==
    /\ called = "compute_top_stocks_valuation"
    /\ RealTickers = {"TICK", "OTH"}
    /\ TickerWeight("TICK") = 500000 /\ TickerWeight("OTH") = 500000
    /\ {FirstOf("TICK", "forward_pe"), FirstOf("OTH", "forward_pe")}
          = {Some(10), Some(20)}
    /\ valuation.portfolio_avg.forward_pe = Some(1333)

\* ------------------------------------------------------------------------
\* the growth value as it is to enter an average
Clamped(v) == IF v > 50 THEN 50 ELSE IF v < -50 THEN -50 ELSE v

\* res is sum(weight * clamped growth) / sum(weight) over the positions K of
\* positive weight that have a value in field f, rounded to two decimals
IsClampedMeanOver(res, f, K) ==
    LET Q == {k \in K : TickerWeight(k) > 0 /\ FirstOf(k, f) # NoNum}
        w == Reduced([k \in Q |-> TickerWeight(k)], Q)
        N == 100 * SumOver([k \in Q |-> w[k] * Clamped(FirstOf(k, f)[1])], Q)
        D == SumOver(w, Q)
    IN  IF Q = {} THEN res = NoNum
        ELSE res # NoNum /\ 2 * Abs(res[1] * D - N) <= D

\* C14: every weighted-average growth figure (EPS and revenue growth of
\* compute_summary_stats and compute_top_stocks_valuation, EPS growth of the
\* portfolio table totals) is the weighted mean of the growth values clamped
\* to [-50, +50]: 120 enters as 50 and -80 as -50.
C14_GrowthClamped ==
    /\ (called = "compute_summary_stats" /\ all_rows # <<>>) =>
          /\ IsClampedMeanOver(summary_stats.weighted_eps_growth,
                               "forward_eps_growth", RealTickers)
          /\ IsClampedMeanOver(summary_stats.weighted_rev_growth,
                               "forward_revenue_growth", RealTickers)
    /\ (called = "compute_top_stocks_valuation" /\ all_rows # <<>>) =>
          /\ IsClampedMeanOver(valuation.portfolio_avg.eps_growth,
                               "forward_eps_growth", RealTickers)
          /\ IsClampedMeanOver(valuation.portfolio_avg.rev_growth,
                               "forward_revenue_growth", RealTickers)
    /\ (called = "compute_portfolio_table_data" /\ all_rows # <<>>) =>
          IsClampedMeanOver(table_data.totals.forward_eps_growth,
                            "forward_eps_growth", AllKeys)

\* two tickers of weight 50 with EPS growth 120 and -80 average to 0, as 50
\* and -50 do
C14_Witness ==
    /\ called = "compute_portfolio_table_data"
    /\ AllKeys = {"TICK", "OTH"}
    /\ TickerWeight("TICK") = 500000 /\ TickerWeight("OTH") = 500000
    /\ {FirstOf("TICK", "forward_eps_growth"), FirstOf("OTH", "forward_eps_growth")}
          = {Some(120), Some(-80)}
    /\ table_data.totals.forward_eps_growth = Some(0)

\* ------------------------------------------------------------------------
\* the tickers that have both a forward P/E and a forward EPS growth
Qualifying ==
    {tk \in RealTickers : /\ FirstOf(tk, "forward_pe") # NoNum
                          /\ FirstOf(tk, "forward_eps_growth") # NoNum}

ListedTickers == {valuation.stocks[i].ticker : i \in DOMAIN valuation.stocks}

\* C15: compute_top_stocks_valuation lists, heaviest first, the first top_n
\* tickers that have both forward P/E and forward EPS growth: a ticker
\* missing either is skipped without counting toward top_n, the list has
\* min(top_n, number of qualifying tickers) entries, and no qualifying ticker
\* is left out in favour of a lighter one.
C15_TopQualifying ==
    (called = "compute_top_stocks_valuation" /\ all_rows # <<>>) =>
        LET stocks == valuation.stocks IN
        /\ Len(stocks) = Min(top_n, Cardinality(Qualifying))
        /\ ListedTickers \subseteq Qualifying
        /\ Cardinality(ListedTickers) = Len(stocks)
        /\ \A i, j \in DOMAIN stocks :
              i < j => TickerWeight(stocks[i].ticker) >= TickerWeight(stocks[j].ticker)
        /\ \A tk \in Qualifying \ ListedTickers : \A u \in ListedTickers :
              TickerWeight(tk) <= TickerWeight(u)
        /\ \A i \in DOMAIN stocks :
              /\ stocks[i].pct = Round2(TickerWeight(stocks[i].ticker))
              /\ stocks[i].forward_pe = FirstOf(stocks[i].ticker, "forward_pe")
              /\ stocks[i].forward_eps_growth =
                    FirstOf(stocks[i].ticker, "forward_eps_growth")

\* the heaviest ticker lacks a forward P/E and is passed over: with top_n = 1
\* the single entry is the lighter ticker that has both values
C15_Witness ==
    /\ called = "compute_top_stocks_valuation"
    /\ top_n = 1
    /\ Len(valuation.stocks) = 1
    /\ \E tk \in RealTickers \ Qualifying :
          TickerWeight(tk) > TickerWeight(valuation.stocks[1].ticker)

\* ------------------------------------------------------------------------
\* the de-duplicated positions of the weighted portfolio, heaviest first
FullTable == AllStocks(StatWeighted, TRUE)

\* res is sum(weight * value) / sum(weight) over the positions K of positive
\* weight that have a value in field f, rounded to two decimals
IsMeanOver(res, f, K) ==
    LET Q == {k \in K : TickerWeight(k) > 0 /\ FirstOf(k, f) # NoNum}
        w == Reduced([k \in Q |-> TickerWeight(k)], Q)
        N == 100 * SumOver([k \in Q |-> w[k] * FirstOf(k, f)[1]], Q)
        D == SumOver(w, Q)
    IN  IF Q = {} THEN res = NoNum
        ELSE res # NoNum /\ 2 * Abs(res[1] * D - N) <= D

\* C16: the totals of compute_portfolio_table_data are those of the full
\* de-duplicated holdings set (total pct is the sum of every combined weight,
\* the averages run over every position), so they are the same for every
\* top_n, while the displayed rows are the top_n heaviest positions.
C16_TotalsOverFullSet ==
    (called = "compute_portfolio_table_data" /\ all_rows # <<>>) =>
        /\ \A n \in TopNs \cup {Len(all_rows)} :
              BuildTable(StatWeighted, TRUE, n).totals = table_data.totals
        /\ table_data.totals.pct =
              Round2(SumSeq([i \in DOMAIN StatWeighted |->
                                StatWeighted[i].combined_weight]))
        /\ IsHarmonicOver(table_data.totals.forward_pe,
              {k \in AllKeys : TickerWeight(k) > 0 /\ HasPositivePE(k)})
        /\ IsMeanOver(table_data.totals.qtd_return, "qtd_return_pct", AllKeys)
        /\ Len(table_data.rows) = Min(top_n, Cardinality(AllKeys))
        /\ \A i \in DOMAIN table_data.rows :
              /\ table_data.rows[i].ticker = FullTable[i].ticker
              /\ table_data.rows[i].pct = Round2(FullTable[i].pct)
        /\ \A i, j \in DOMAIN FullTable : i < j => FullTable[i].pct >= FullTable[j].pct

\* two positions, one displayed: the totals still cover both
C16_Witness ==
    /\ called = "compute_portfolio_table_data"
    /\ top_n = 1
    /\ Cardinality(AllKeys) = 2
    /\ Len(table_data.rows) = 1
    /\ table_data.totals.pct > table_data.rows[1].pct
    /\ table_data.rows[1].pct > 0

\* ------------------------------------------------------------------------
HasKey(r, k) == k \in DOMAIN r

\* C17: _apply_manager_weights and the functions that call it leave the
\* caller's records as they were (same keys, same values, no combined_weight
\* key); combined_weight is on the returned copies only.
C17_InputsNotMutated ==
    [][called' # called =>
          /\ all_rows' = all_rows
          /\ previous_rows' = previous_rows
          /\ \A i \in DOMAIN all_rows' : ~HasKey(all_rows'[i], "combined_weight")
          /\ called' \in {"apply_manager_weights", "compute_portfolio_table_data"}
                => \A i \in DOMAIN weighted' : HasKey(weighted'[i], "combined_weight")
      ]_vars

\* weighted copies have been returned for a non-empty input
C17_Witness ==
    /\ called = "apply_manager_weights"
    /\ Len(all_rows) = 2
    /\ Len(weighted) = 2
    /\ \A i \in DOMAIN weighted :
          /\ HasKey(weighted[i], "combined_weight")
          /\ ~HasKey(all_rows[i], "combined_weight")
          /\ \A k \in DOMAIN all_rows[i] : weighted[i][k] = all_rows[i][k]

\* ------------------------------------------------------------------------
\* what each function returns for no records
EmptyResultOf(fn) ==
    CASE fn = "apply_manager_weights" ->
            weighted = <<>> /\ total_wt = [num |-> 1, den |-> 1]
      [] fn = "compute_summary_stats" -> summary_stats = NoMapStr
      [] fn = "compute_top_stocks_valuation" ->
            valuation = [stocks |-> <<>>, portfolio_avg |-> NoMapStr]
      [] fn = "compute_overlap" -> overlap = <<>>
      [] fn = "compute_sector_breakdown" ->
            breakdown = [sectors |-> <<>>, normalized_sectors |-> <<>>,
                         industries |-> <<>>, by_manager |-> NoMap]
      [] fn = "compute_geo_breakdown" ->
            breakdown = [countries |-> <<>>, normalized_countries |-> <<>>]
      [] fn = "compute_sector_treemap" ->
            breakdown = [sectors |-> <<>>, industries |-> <<>>]
      [] fn = "compute_geo_treemap" -> breakdown = [countries |-> <<>>]
      [] fn = "compute_portfolio_table_data" ->
            table_data = NoTable /\ manager_tables = NoMap
      [] fn = "compute_qoq_diff" -> diff = NoMap

\* C18: called with no records (compute_qoq_diff: with two empty snapshots),
\* with or without weights, every aggregation and diff function returns its
\* empty result and raises nothing; batch_fetch_financial_data called with
\* no tickers returns the empty map without submitting a fetch or calling
\* the progress callback.
C18_EmptyInputNeutral ==
    /\ (called # "none" /\ all_rows = <<>>
            /\ (called = "compute_qoq_diff" => previous_rows = <<>>))
          => ~error /\ EmptyResultOf(called)
    /\ (tickers = <<>> /\ main_pc = "returned")
          => /\ results = NoMap
             /\ futures = <<>>
             /\ progress = <<>>
             /\ \A t \in Threads : thr[t].pc = "idle"

\* a breakdown of no records next to a batch of no tickers
C18_Witness ==
    /\ called = "compute_sector_breakdown"
    /\ all_rows = <<>>
    /\ breakdown.sectors = <<>>
    /\ ~error
    /\ tickers = <<>>
    /\ main_pc = "returned"
    /\ results = NoMap


---------------------------------------------------------------------------
\* De-duplication policy of the four ticker-level merges

DedupFunctions ==
    {"compute_summary_stats", "compute_top_stocks_valuation",
     "compute_portfolio_table_data", "write_weighted_xlsx"}

\* the grouping key of a merged position
PositionKey(e) == IF "key" \in DOMAIN e THEN e.key ELSE e.ticker

\* first non-null value of text field f among the records of key tk
FirstText(tk, f) ==
    LET having == {i \in RowsWith(tk) : Get(StatWeighted[i], f) # NULL}
    IN  IF having = {} THEN NULL
        ELSE Get(StatWeighted[CHOOSE i \in having : \A j \in having : i <= j], f)

\* every merged position built by a function of fns carries, in each field it
\* has, the first non-null value of the records merged into it
FirstNonNullIn(fns) ==
    (called \in fns /\ ~error) =>
        \A i \in DOMAIN by_ticker :
            LET e == by_ticker[i]
                k == PositionKey(e)
            IN  /\ e.name = FirstText(k, "name")
                /\ e.sector = FirstText(k, "sector")
                /\ e.forward_pe = FirstOf(k, "forward_pe")
                /\ e.forward_eps_growth = FirstOf(k, "forward_eps_growth")
                /\ "forward_revenue_growth" \in DOMAIN e =>
                      e.forward_revenue_growth = FirstOf(k, "forward_revenue_growth")
                /\ "qtd_return" \in DOMAIN e =>
                      e.qtd_return = FirstOf(k, "qtd_return_pct")
                /\ "qtd_return_pct" \in DOMAIN e =>
                      e.qtd_return_pct = FirstOf(k, "qtd_return_pct")

\* C19: in compute_summary_stats, compute_top_stocks_valuation,
\* compute_portfolio_table_data and write_weighted_xlsx alike, each field of a
\* merged position other than the key, the combined weight, the total value
\* and the manager set is the first non-null value met among the records of
\* that position in input order: a later record never overwrites it
C19_FirstNonNullKept == FirstNonNullIn(DedupFunctions)

\* the two merges that keep the first name and the first sector
C19_TableAndXlsxKeepFirst ==
    FirstNonNullIn({"compute_portfolio_table_data", "write_weighted_xlsx"})


\* each weighted record is merged into exactly one position, the one of its
\* ticker or, without ticker, of its name, and the positions carry the whole
\* weight, after a call of a function of fns
NoRecordDroppedIn(fns) ==
    (called \in fns /\ ~error) =>
        /\ \A r \in DOMAIN StatWeighted :
              Cardinality({i \in DOMAIN by_ticker :
                  PositionKey(by_ticker[i]) = TickerKey(StatWeighted[r])}) = 1
        /\ SumOver([i \in DOMAIN by_ticker |-> WeightOf(by_ticker[i])],
                   DOMAIN by_ticker)
             = SumOver([r \in DOMAIN StatWeighted |-> StatWeighted[r].combined_weight],
                       DOMAIN StatWeighted)

\* C20: the de-duplication groups a record by its ticker, or by its name when
\* the ticker is "N/A", and drops none: the combined weights of the positions
\* add up to the combined weights of all weighted records, in the portfolio
\* table, the valuation scatter and the summary statistics alike
C20_NoRecordDropped ==
    NoRecordDroppedIn({"compute_portfolio_table_data",
                       "compute_top_stocks_valuation", "compute_summary_stats"})

\* the merges that group the records without ticker by name
C20_TableAndXlsxDropNone ==
    NoRecordDroppedIn({"compute_portfolio_table_data", "write_weighted_xlsx"})


---------------------------------------------------------------------------
\* Quarter-over-quarter diff of holdings without ticker

\* the rows of manager m in a snapshot
SnapshotOf(rows, m) == {rows[i] : i \in {j \in DOMAIN rows : rows[j].manager = m}}

\* the positions of a snapshot: the ticker, or the name without ticker
PositionsOf(rows, m) == {TickerKey(r) : r \in SnapshotOf(rows, m)}

\* C21: compute_qoq_diff indexes a manager's snapshot by ticker, or by name
\* when the ticker is "N/A": positions without ticker and with different
\* names are distinct entries, each classified on its own as new, exited,
\* changed or unchanged
C21_UnknownTickersDistinct ==
    called = "compute_qoq_diff" =>
        \A m \in DOMAIN diff :
            LET d == diff[m]
                ck == PositionsOf(all_rows, m)
                pk == PositionsOf(previous_rows, m)
            IN  /\ {TickerKey(e) : e \in Range(d.new_positions)} = ck \ pk
                /\ {TickerKey(e) : e \in Range(d.exited_positions)} = pk \ ck
                /\ Len(d.changed_positions) + d.unchanged_count
                     = Cardinality(ck \cap pk)


---------------------------------------------------------------------------
\* Weight-based treemaps

TreemapReturned ==
    called \in {"compute_sector_treemap", "compute_geo_treemap"} /\ ~error

\* the lists of the result, each with the field that groups it
TreemapLists ==
    IF called = "compute_sector_treemap"
    THEN {<<"sector", breakdown.sectors>>, <<"industry", breakdown.industries>>}
    ELSE {<<"country", breakdown.countries>>}

\* the weighted records of category name under the grouping field
MembersOf(field, name) ==
    {i \in DOMAIN StatWeighted : CategoryOf(StatWeighted[i], field) = name}

MemberWeight(S) == SumOver([i \in S |-> StatWeighted[i].combined_weight], S)

\* entry e of top_stocks shows the weighted record r
Shows(e, r) ==
    /\ e.ticker = r.ticker /\ e.name = r.name /\ e.manager = r.manager
    /\ e.value = r.value_usd /\ e.weight_in_combined = r.combined_weight

\* pct is the rounded sum of the members' combined weights, and the pcts add
\* up to the combined weight of the portfolio within the rounding of each
CategoryPcts(field, list) ==
    /\ \A c \in Range(list) : c.pct = Round2(MemberWeight(MembersOf(field, c.name)))
    /\ LET diff100 == 100 * SumSeq([i \in DOMAIN list |-> list[i].pct])
                        - MemberWeight(DOMAIN StatWeighted)
       IN  Abs(diff100) <= 50 * Len(list)

\* C22 as stated: the treemaps run on the de-duplicated portfolio, a category's
\* pct is the sum of its members' combined weights, the pcts add up to the
\* combined weight of the portfolio, and a ticker held by several managers is
\* one entry of its category's top_stocks, with its summed weight
C22_TreemapDeduplicated ==
    TreemapReturned =>
        \A l \in TreemapLists :
            /\ CategoryPcts(l[1], l[2])
            /\ \A c \in Range(l[2]) : \A i \in MembersOf(l[1], c.name) :
                  LET k == TickerKey(StatWeighted[i])
                      same == {j \in MembersOf(l[1], c.name) :
                                  TickerKey(StatWeighted[j]) = k}
                      shown == {j \in DOMAIN c.top_stocks :
                                   TickerKey(c.top_stocks[j]) = k}
                  IN  /\ Cardinality(shown) <= 1
                      /\ \A j \in shown :
                            c.top_stocks[j].weight_in_combined = MemberWeight(same)

\* C22 amended: the treemaps run on the weighted records without merging
\* them: pct is the rounded sum of the combined weights of the category's
\* records, count is their number, and top_stocks holds one entry for every
\* record (up to ten, by descending weight), each with the weight and the
\* manager of that record, so a ticker held by two managers appears twice
C22_TreemapPerRecord ==
    TreemapReturned =>
        \A l \in TreemapLists :
            /\ CategoryPcts(l[1], l[2])
            /\ \A c \in Range(l[2]) :
                  LET mem == MembersOf(l[1], c.name)
                      top == c.top_stocks
                  IN  /\ c.count = Cardinality(mem)
                      /\ Len(top) = Min(TopStocksShown, Cardinality(mem))
                      /\ \A i \in mem :
                            Cardinality({j \in DOMAIN top : Shows(top[j], StatWeighted[i])})
                              = Cardinality({j \in mem :
                                    Shows(TreemapStock(StatWeighted[i]), StatWeighted[j])})
                      /\ \A j \in DOMAIN top : j > 1 =>
                            top[j - 1].weight_in_combined >= top[j].weight_in_combined

\* a ticker held by both managers in one sector, shown once per manager
C22_Witness ==
    /\ called = "compute_sector_treemap" /\ ~error
    /\ \E c \in Range(breakdown.sectors) :
          \E i, j \in DOMAIN c.top_stocks :
              /\ c.top_stocks[i].ticker = "TICK" /\ c.top_stocks[j].ticker = "TICK"
              /\ c.top_stocks[i].manager = "A" /\ c.top_stocks[j].manager = "B"
              /\ c.pct = Round2(c.top_stocks[i].weight_in_combined
                                  + c.top_stocks[j].weight_in_combined)


---------------------------------------------------------------------------
\* Value-based breakdowns

BreakdownReturned ==
    called \in {"compute_sector_breakdown", "compute_geo_breakdown"} /\ ~error

\* the raw lists of the result, each with the field that groups it
RawLists ==
    IF called = "compute_sector_breakdown"
    THEN {<<"sector", breakdown.sectors>>, <<"industry", breakdown.industries>>}
    ELSE {<<"country", breakdown.countries>>}

\* the raw list, its normalized list and the normalizing function
NormalizedLists ==
    IF called = "compute_sector_breakdown"
    THEN <<breakdown.sectors, breakdown.normalized_sectors, "sector">>
    ELSE <<breakdown.countries, breakdown.normalized_countries, "country">>

RawValue(S) == SumOver([i \in S |-> all_rows[i].value_usd], S)

\* the global total the percentages refer to: the sum of the raw values, 1
\* when that sum is 0
GlobalTotal ==
    IF RawValue(DOMAIN all_rows) = 0 THEN 1 ELSE RawValue(DOMAIN all_rows)

ListValue(list) == SumSeq([i \in DOMAIN list |-> list[i].total_value])
ListCount(list) == SumSeq([i \in DOMAIN list |-> list[i].count])

\* C23: in compute_sector_breakdown and compute_geo_breakdown a category's pct
\* is its raw value over the global raw value times 100, whatever the manager
\* weights; the categories partition the records, so their total_values add up
\* to the global total, and the normalized categories carry the same overall
\* value and record count as the raw ones
C23_BreakdownByRawValue ==
    BreakdownReturned =>
        /\ \A l \in RawLists :
              /\ \A i, j \in DOMAIN l[2] : l[2][i].name = l[2][j].name => i = j
              /\ {c.name : c \in Range(l[2])}
                   = {CategoryOf(all_rows[i], l[1]) : i \in DOMAIN all_rows}
              /\ \A c \in Range(l[2]) :
                    LET mem == {i \in DOMAIN all_rows :
                                   CategoryOf(all_rows[i], l[1]) = c.name}
                    IN  /\ c.total_value = RawValue(mem)
                        /\ c.count = Cardinality(mem)
                        /\ c.pct = RoundDiv(10000 * RawValue(mem), GlobalTotal)
              /\ ListValue(l[2]) = RawValue(DOMAIN all_rows)
              /\ ListCount(l[2]) = Len(all_rows)
        /\ LET raw == NormalizedLists[1]
               norm == NormalizedLists[2]
               fn == NormalizedLists[3]
           IN  /\ ListValue(norm) = ListValue(raw)
               /\ ListCount(norm) = ListCount(raw)
               /\ \A i, j \in DOMAIN norm : norm[i].name = norm[j].name => i = j
               /\ \A c \in Range(norm) :
                     LET from == {i \in DOMAIN raw :
                                     NormalizeBy(fn, raw[i].name) = c.name}
                     IN  /\ from # {}
                         /\ c.total_value = SumOver([i \in from |-> raw[i].total_value], from)
                         /\ c.pct = RoundDiv(10000 * c.total_value, GlobalTotal)

\* two raw sectors that normalize to one, under manager weights
C23_Witness ==
    /\ called = "compute_sector_breakdown" /\ ~error
    /\ ~manager_weights.none
    /\ Len(breakdown.sectors) = 2
    /\ Len(breakdown.normalized_sectors) = 1
    /\ breakdown.normalized_sectors[1].count = 2
    /\ breakdown.sectors[1].pct = 7500 /\ breakdown.sectors[2].pct = 2500


---------------------------------------------------------------------------
\* Fan-out / fan-in of the batch

\* the pool threads inside fetch_ticker_data
Executing == {t \in Threads : thr[t].job # 0 /\ thr[t].pc \notin {"idle", "done"}}

\* the record the future of ticker number i ended with
OutcomeOf(i) == IF futures[i].exc THEN EmptyResult ELSE futures[i].value

\* at return every submitted call has finished and its outcome is in the map
FanInComplete ==
    main_pc = "returned" /\ tickers # <<>> =>
        /\ Len(futures) = Len(tickers)
        /\ \A i \in DOMAIN futures : futures[i].state = "finished" /\ futures[i].yielded
        /\ work_queue = <<>> /\ Executing = {}
        /\ DOMAIN results = Range(tickers)
        /\ \A tk \in DOMAIN results :
              \E i \in DOMAIN tickers : tickers[i] = tk /\ results[tk] = OutcomeOf(i)

\* a step changes the entry of a ticker only by collecting a future of that
\* ticker, and then to the outcome of that future
OwnEntryOnly ==
    \A tk \in DOMAIN results' :
        (tk \notin DOMAIN results \/ results'[tk] # results[tk]) =>
            \E i \in DOMAIN futures :
                /\ tickers[i] = tk
                /\ ~futures[i].yielded /\ futures'[i].yielded
                /\ results'[tk] = OutcomeOf(i)

\* C24: batch_fetch_financial_data runs at most max_workers fetches at a time,
\* returns only when every submitted fetch has finished with its result in
\* the map, eventually returns when every call of fetch_ticker_data returns
\* or raises, and a fetch that ends late changes no other ticker's result
C24_FanOutFanIn ==
    /\ [](Cardinality(Executing) <= max_workers)
    /\ []FanInComplete
    /\ [][main_pc # "called" => OwnEntryOnly]_vars
    /\ (main_pc = "called" ~> main_pc = "returned")

\* two tickers on a pool of one thread, the first call raising: both entries
\* are in the map at return
C24_Witness ==
    /\ main_pc = "returned"
    /\ max_workers = 1 /\ Len(tickers) = 2 /\ tickers[1] # tickers[2]
    /\ futures[1].exc /\ ~futures[2].exc
    /\ results[tickers[1]] = EmptyResult
    /\ results[tickers[2]] = futures[2].value /\ futures[2].value # EmptyResult


---------------------------------------------------------------------------
\* Static fallback of sector, industry and country

\* the provider's info bundle was read and holds a value for field f
ProviderGives(out, f) ==
    /\ InfoHas(out)
    /\ f = "sector" => out.info # "no_sector"
    /\ f = "industry" => out.info # "no_industry"
    /\ f = "country" => out.info # "no_country"

\* C25: in the record fetch_ticker_data builds, each of sector, industry and
\* country is the provider's value when the provider gives one and otherwise
\* the value of the static table for the ticker: a field the provider left
\* empty is filled whenever the table knows the ticker, whatever the provider
\* returned for the other two fields
C25_StaticFillsEmpty ==
    \A t \in Threads :
        (thr[t].pc = "done" /\ thr[t].made_calls /\ Done(thr[t].env, "info")) =>
            \A f \in {"sector", "industry", "country"} :
                thr[t].result[f] =
                    IF ProviderGives(thr[t].env, f) THEN "info"
                    ELSE IF thr[t].ticker \in StaticTickers THEN "static"
                    ELSE NULL

\* the fallback as the code applies it: consulted only when the provider gave
\* no sector
C25_StaticFillsWhenNoSector ==
    \A t \in Threads :
        (thr[t].pc = "done" /\ thr[t].made_calls /\ Done(thr[t].env, "info")) =>
            \A f \in {"sector", "industry", "country"} :
                thr[t].result[f] =
                    IF ProviderGives(thr[t].env, f) THEN "info"
                    ELSE IF thr[t].ticker \in StaticTickers
                            /\ ~ProviderGives(thr[t].env, "sector") THEN "static"
                    ELSE NULL


---------------------------------------------------------------------------
\* Caching of degraded records

\* a fetch that started after a degraded fetch of its key returned
AfterDegraded(t) == thr[t].owed # {}

\* such a fetch finds the key in the cache and calls no provider
NoRetry ==
    \A t \in Threads :
        AfterDegraded(t) =>
            /\ thr[t].pc \in {"lock_check", "check", "done"}
            /\ ~thr[t].made_calls
            /\ KeyOf(t) \in DOMAIN cache

\* C26 as stated: a degraded fetch is cached like a successful one; every
\* later fetch of its key returns the same degraded record without retrying
\* any external call, until clear_cache is called
C26_DegradedCached ==
    /\ NoRetry
    /\ \A t \in Threads :
          (AfterDegraded(t) /\ thr[t].pc = "done") => thr[t].result \in thr[t].owed

\* the record is in the cache when the storing fetch returns
StoredOnReturn ==
    \A t \in Threads :
        (thr[t].pc = "store" /\ thr'[t].pc # "store") =>
            /\ KeyOf(t) \in DOMAIN cache'
            /\ cache'[KeyOf(t)] = thr[t].result

\* C26 amended: the record of a fetch is stored whatever it holds; a later
\* fetch of the key makes no external call and returns the cached record,
\* which is the degraded one unless another fetch of the same key, running
\* when it was stored, has stored its own record over it
C26_DegradedCachedUnlessOverwritten ==
    /\ []NoRetry
    /\ [][StoredOnReturn]_vars
    /\ [](\A t \in Threads :
            (AfterDegraded(t) /\ thr[t].pc = "done") =>
                \/ thr[t].result \in thr[t].owed
                \/ Cardinality(writers[KeyOf(t)]) > 1)

\* a fetch returned the all-failed record of an earlier fetch of its key,
\* without a provider call
C26_Witness ==
    \E t \in Threads :
        /\ AfterDegraded(t) /\ thr[t].pc = "done"
        /\ ~thr[t].made_calls
        /\ thr[t].result = FetchRecord(thr[t].ticker, AllRaise)
        /\ cache[KeyOf(t)] = thr[t].result


\* ------------------------------------------------------------------------
\* Run handlers
\* ------------------------------------------------------------------------

RunningWorkers == {w \in DOMAIN worker : Running(w)}

\* A step in which a run request gets past, or fails, the acquire.
RequestAnswered ==
    /\ response' # response
    /\ response'.status \in {0, 409}

RejectedUntouched ==
    (run_lock /\ RequestAnswered) =>
        /\ response'.status = 409
        /\ UNCHANGED <<run_lock, worker, progress_queues, last_results,
                       diff_results, abort_flag, handler>>

\* C27: at most one background run executes at any time, a running worker
\* holds run_lock, and a run request arriving while run_lock is held is
\* answered 409 and starts no thread, creates no progress queue and changes
\* neither last_results nor diff_results.
C27_OneRunAtATime ==
    /\ [](Cardinality(RunningWorkers) <= 1)
    /\ [](RunningWorkers # {} => run_lock)
    /\ [][RejectedUntouched]_vars

\* a request was answered 409 while a run is executing
C27_Witness ==
    /\ RunningWorkers # {}
    /\ run_lock
    /\ response.status = 409

\* C28: run_lock is never leaked: whenever it is held, the handler that
\* acquired it is still running or its worker thread is, so that it is
\* released in the end and a later run request can be accepted.
C28_LockNeverLeaked ==
    run_lock => (handler.pc # "none" \/ RunningWorkers # {})

CompleteCount(q) == Cardinality({k \in DOMAIN q : q[k].type = "complete"})

\* C29: the progress queue of an accepted run whose worker has ended holds
\* exactly one "complete" event and no event follows it.
C29_OneCompleteLast ==
    \A w \in DOMAIN worker :
        ~Running(w) =>
            /\ CompleteCount(progress_queues[w]) = 1
            /\ progress_queues[w][Len(progress_queues[w])].type = "complete"

Completed(w) ==
    /\ worker[w].kind = "api_run"
    /\ worker[w].pc = "save"

\* C30: in a holdings run, no manager_start event follows the first
\* /api/stop of the run; a run stopped reports aborted = true and a run
\* never stopped (the flag having been cleared when it was accepted) reports
\* aborted = false; aborted = true is reported only if a configured manager
\* was skipped.
C30_StopSkipsManagers ==
    \A w \in DOMAIN worker :
        LET q == progress_queues[w]
        IN  /\ (worker[w].kind = "api_run" /\ worker[w].stopped) =>
                  \A k \in DOMAIN q :
                      k > worker[w].stop_at => q[k].type # "manager_start"
            /\ Completed(w) =>
                  /\ q[Len(q)].type = "complete"
                  /\ q[Len(q)].aborted = worker[w].stopped
                  /\ q[Len(q)].aborted => worker[w].skipped

====
